---- MODULE Spec2Model ----
(***************************************************************************)
(* A model of package vss (github.com/mxk/go-vss): the binding of the      *)
(* Windows Volume Shadow Copy service through WMI's Win32_ShadowCopy.      *)
(*                                                                         *)
(* The package's own code (vss.go, wmi.go) is modelled operation by        *)
(* operation.  What it calls is the environment: the COM runtime, the WMI  *)
(* provider with its set of shadow copies, the volume manager and the file *)
(* system.  The environment is a faithful store (nothing but the package's *)
(* calls creates or deletes a shadow copy or a symlink) whose calls may    *)
(* fail: CoInitializeEx, ConnectServer and any WMI call may report an      *)
(* error, which the package forwards.                                      *)
(*                                                                         *)
(* Strings are sequences of one-character strings, so that the package's   *)
(* string handling (prefix tests, case folding, trimming, quoting, GUID    *)
(* parsing, path cleaning) is computed, not assumed.                       *)
(***************************************************************************)
EXTENDS Integers, Sequences, FiniteSets, TLC

Nil == <<"nil">>

\* ------------------------------------------------------------------------
\* Strings
\* ------------------------------------------------------------------------

LowerSeq == <<"a","b","c","d","e","f","g","h","i","j","k","l","m","n","o","p","q","r","s","t","u","v","w","x","y","z">>
UpperSeq == <<"A","B","C","D","E","F","G","H","I","J","K","L","M","N","O","P","Q","R","S","T","U","V","W","X","Y","Z">>
HexSeq == <<"0","1","2","3","4","5","6","7","8","9","A","B","C","D","E","F">>

Range(s) == {s[i] : i \in 1..Len(s)}

\* unicode.ToUpper restricted to ASCII
UpperOf == [c \in Range(LowerSeq) |-> UpperSeq[CHOOSE i \in 1..Len(LowerSeq) : LowerSeq[i] = c]]

UpperChar(c) == IF c \in DOMAIN UpperOf THEN UpperOf[c] ELSE c

ToUpper(s) == [i \in 1..Len(s) |-> UpperChar(s[i])]

\* strings.EqualFold on ASCII strings
EqualFold(s, t) == Len(s) = Len(t) /\ \A i \in 1..Len(s) : UpperChar(s[i]) = UpperChar(t[i])

\* strings.HasPrefix
HasPrefix(s, prefix) == Len(s) >= Len(prefix) /\ SubSeq(s, 1, Len(prefix)) = prefix

\* A TrimSuffix that trims nothing.
TrimSuffixNone(s, suffix) == s

\* strings.TrimSuffix: removes one trailing occurrence of suffix
TrimSuffix(s, suffix) ==
    IF Len(s) >= Len(suffix) /\ SubSeq(s, Len(s) - Len(suffix) + 1, Len(s)) = suffix
    THEN SubSeq(s, 1, Len(s) - Len(suffix))
    ELSE s

\* hasPrefixFold tests whether s begins with an ASCII-only prefix ignoring case.
hasPrefixFold(s, prefix) ==
    Len(s) >= Len(prefix) /\ EqualFold(SubSeq(s, 1, Len(prefix)), prefix)

\* filepath.FromSlash on Windows
FromSlash(s) == [i \in 1..Len(s) |-> IF s[i] = "/" THEN "\\" ELSE s[i]]

IsSlash(c) == c = "\\" \/ c = "/"

\* A %q that escapes nothing.
GoEscapeNone(s) == s

\* Go's %q for ASCII text: the string in double quotes, every backslash and
\* double quote preceded by a backslash.
RECURSIVE GoEscape(_)
GoEscape(s) ==
    IF s = <<>> THEN <<>>
    ELSE (IF s[1] = "\\" \/ s[1] = "\"" THEN <<"\\", s[1]>> ELSE <<s[1]>>) \o GoEscape(Tail(s))

GoQuote(s) == <<"\"">> \o GoEscape(s) \o <<"\"">>

\* WQL's reading of a string literal: the quotes dropped, a backslash taking
\* the next character literally.
RECURSIVE WqlUnescape(_)
WqlUnescape(s) ==
    IF s = <<>> THEN <<>>
    ELSE IF s[1] = "\\" /\ Len(s) >= 2 THEN <<s[2]>> \o WqlUnescape(SubSeq(s, 3, Len(s)))
    ELSE <<s[1]>> \o WqlUnescape(Tail(s))

WqlUnquote(lit) ==
    IF Len(lit) >= 2 /\ lit[1] = "\"" /\ lit[Len(lit)] = "\""
    THEN WqlUnescape(SubSeq(lit, 2, Len(lit) - 1))
    ELSE lit

\* ------------------------------------------------------------------------
\* GUIDs (ole.NewGUID, GUID.String)
\* ------------------------------------------------------------------------

IsHex(c) == \E i \in 1..Len(HexSeq) : HexSeq[i] = UpperChar(c)

\* ole.NewGUID: accepts {8-4-4-4-12} (38 characters), 8-4-4-4-12 (36) and 32
\* bare hexadecimal digits, in either case; returns the GUID (its 32 digits in
\* upper case) or Nil.
Dashed36(d) ==
    IF d[9] # "-" \/ d[14] # "-" \/ d[19] # "-" \/ d[24] # "-" THEN Nil
    ELSE LET h == SubSeq(d, 1, 8) \o SubSeq(d, 10, 13) \o SubSeq(d, 15, 18)
                  \o SubSeq(d, 20, 23) \o SubSeq(d, 25, 36)
         IN  IF \A i \in 1..Len(h) : IsHex(h[i]) THEN ToUpper(h) ELSE Nil

NewGUID(s) ==
    CASE Len(s) = 38 ->
           IF s[1] # "{" \/ s[38] # "}" THEN Nil ELSE Dashed36(SubSeq(s, 2, 37))
      [] Len(s) = 36 -> Dashed36(s)
      [] Len(s) = 32 -> IF \A i \in 1..32 : IsHex(s[i]) THEN ToUpper(s) ELSE Nil
      [] OTHER -> Nil

\* A String that prints the bare digits of the GUID.
GuidStringBare(g) == g

\* GUID.String: {XXXXXXXX-XXXX-XXXX-XXXX-XXXXXXXXXXXX} in upper case
GuidString(g) ==
    <<"{">> \o SubSeq(g, 1, 8) \o <<"-">> \o SubSeq(g, 9, 12) \o <<"-">> \o SubSeq(g, 13, 16)
    \o <<"-">> \o SubSeq(g, 17, 20) \o <<"-">> \o SubSeq(g, 21, 32) \o <<"}">>

\* ------------------------------------------------------------------------
\* Paths (path/filepath on Windows, go 1.21)
\* ------------------------------------------------------------------------

\* Index of the first separator of s, 0 if none.
IndexSlash(s) ==
    IF \E i \in 1..Len(s) : IsSlash(s[i])
    THEN CHOOSE i \in 1..Len(s) : IsSlash(s[i]) /\ \A j \in 1..(i - 1) : ~IsSlash(s[j])
    ELSE 0

\* s cut at its i-th character: the text before it, the text after it, and
\* whether there is such a character (i # 0).
CutAt(s, i) ==
    IF i = 0 THEN [before |-> s, after |-> <<>>, found |-> FALSE]
    ELSE [before |-> SubSeq(s, 1, i - 1), after |-> SubSeq(s, i + 1, Len(s)), found |-> TRUE]

\* filepath.cutPath: s cut at its first separator.
cutPath(s) == CutAt(s, IndexSlash(s))

IsLetter(c) == \E i \in 1..Len(LowerSeq) : LowerSeq[i] = c \/ UpperSeq[i] = c

\* The volume name of \\?\UNC\host\share: c3 is the cut after UNC\.
volumeNameLenUNC(path, c4) ==
    IF ~c4.found THEN Len(path) ELSE Len(path) - Len(c4.after) - 1

\* The volume name of a path that begins with two separators: c1 and c2 are
\* its first two cuts.  \\host\share, \\.\name and \\?\name.
volumeNameLenCut(path, c1, c2) ==
    IF ~c2.found THEN Len(path)
    ELSE IF c1.before # <<".">> /\ c1.before # <<"?">> THEN Len(path) - Len(c2.after) - 1
    ELSE IF EqualFold(c2.before, <<"U","N","C">>)
    THEN volumeNameLenUNC(path, cutPath(cutPath(c2.after).after))
    ELSE Len(path) - Len(c2.after) - 1

volumeNameLenSlashes(path, c1) == volumeNameLenCut(path, c1, cutPath(c1.after))

\* filepath.volumeNameLen: the length of the leading volume name: a drive
\* letter, \\host\share, or a \\?\name or \\.\name device path.
volumeNameLen(path) ==
    IF Len(path) < 2 THEN 0
    ELSE IF path[2] = ":" /\ IsLetter(path[1]) THEN 2
    ELSE IF ~IsSlash(path[1]) \/ ~IsSlash(path[2]) THEN 0
    ELSE volumeNameLenSlashes(path, cutPath(SubSeq(path, 3, Len(path))))

\* filepath.VolumeName
VolumeName(path) == FromSlash(SubSeq(path, 1, volumeNameLen(path)))

\* The components of s between separators, empty ones included.
RECURSIVE SplitCut(_)
SplitCut(c) == IF ~c.found THEN <<c.before>> ELSE <<c.before>> \o SplitCut(cutPath(c.after))

SplitSlash(s) == SplitCut(cutPath(s))

\* Clean's pass over the components: empty and "." are dropped, ".." removes
\* the component before it, is kept at the start of a relative path and is
\* dropped at the root.
RECURSIVE CleanComps(_, _, _)
CleanComps(comps, out, rooted) ==
    IF comps = <<>> THEN out
    ELSE CleanComps(Tail(comps),
            IF comps[1] = <<>> \/ comps[1] = <<".">> THEN out
            ELSE IF comps[1] = <<".", ".">>
                 THEN IF Len(out) > 0 /\ out[Len(out)] # <<".", ".">>
                      THEN SubSeq(out, 1, Len(out) - 1)
                      ELSE IF rooted THEN out ELSE Append(out, comps[1])
                 ELSE Append(out, comps[1]),
            rooted)

RECURSIVE JoinSlash(_)
JoinSlash(comps) ==
    IF comps = <<>> THEN <<>>
    ELSE IF Len(comps) = 1 THEN comps[1]
    ELSE comps[1] \o <<"\\">> \o JoinSlash(Tail(comps))

DotIfEmpty(s) == IF s = <<>> THEN <<".">> ELSE s

\* Clean of the part of a path after its volume name.
CleanRest(rest, rooted) ==
    DotIfEmpty((IF rooted THEN <<"\\">> ELSE <<>>)
               \o JoinSlash(CleanComps(SplitSlash(rest), <<>>, rooted)))

\* Clean of a path whose volume name has n characters.
CleanVol(path, n) ==
    IF n = Len(path)
    THEN IF n > 1 /\ IsSlash(path[1]) /\ IsSlash(path[2])
         THEN FromSlash(path)
         ELSE path \o <<".">>
    ELSE FromSlash(SubSeq(path, 1, n))
         \o CleanRest(SubSeq(path, n + 1, Len(path)), IsSlash(path[n + 1]))

\* filepath.Clean
Clean(path) == CleanVol(path, volumeNameLen(path))

\* ------------------------------------------------------------------------
\* CIM datetime (parseDateTime)
\* ------------------------------------------------------------------------

IsDigit(c) == c \in {"0","1","2","3","4","5","6","7","8","9"}
DigitVal(c) == (CHOOSE i \in 1..10 : HexSeq[i] = c) - 1

\* The value of a string of decimal digits.
RECURSIVE DecVal(_)
DecVal(s) == IF s = <<>> THEN 0 ELSE DecVal(SubSeq(s, 1, Len(s) - 1)) * 10 + DigitVal(s[Len(s)])

AllDigits(s) == \A i \in 1..Len(s) : IsDigit(s[i])

IsLeap(y) == y % 4 = 0 /\ (y % 100 # 0 \/ y % 400 = 0)
DaysIn(y, m) ==
    IF m = 2 THEN (IF IsLeap(y) THEN 29 ELSE 28)
    ELSE IF m \in {4, 6, 9, 11} THEN 30 ELSE 31

\* Days from 1970-01-01 to the civil date y-m-d (proleptic Gregorian).
DaysFromCivil(y, m, d) ==
    LET yy == IF m <= 2 THEN y - 1 ELSE y
        mm == IF m <= 2 THEN m + 9 ELSE m - 3
    IN  365 * yy + (yy \div 4) - (yy \div 100) + (yy \div 400)
        + ((153 * mm + 2) \div 5) + d - 1 - 719468

\* An Instant that reads the clock as UTC, whatever the zone.
InstantUTC(y, m, d, hh, mi, ss, us, off) ==
    <<DaysFromCivil(y, m, d), hh * 3600 + mi * 60 + ss, us>>

\* An instant is <<days since 1970-01-01, second of the day, microsecond>> in
\* UTC.  The instant whose clock in the zone UTC+off minutes shows the given
\* civil time:
Instant(y, m, d, hh, mi, ss, us, off) ==
    LET sod == hh * 3600 + mi * 60 + ss - off * 60
        day == DaysFromCivil(y, m, d)
    IN  IF sod < 0 THEN <<day - 1, sod + 86400, us>>
        ELSE IF sod >= 86400 THEN <<day + 1, sod - 86400, us>>
        ELSE <<day, sod, us>>

sign == 21

\* parseDateTime converts a WMI datetime string (yyyymmddHHMMSS.mmmmmmsUUU) to
\* time.Time.  Result: [err, t], t an instant (shown in the local zone).
parseDateTime(dt) ==
    IF Len(dt) # sign + 4 \/ (dt[sign + 1] # "-" /\ dt[sign + 1] # "+")
    THEN [err |-> "invalid datetime", t |-> <<0, 0, 0>>]
    ELSE LET offDigits == SubSeq(dt, sign + 2, sign + 4)
             off == (IF dt[sign + 1] = "-" THEN -1 ELSE 1) * DecVal(offDigits)
         IN  IF ~AllDigits(offDigits) \/ off < -720 \/ 720 < off
             THEN [err |-> "invalid UTC offset", t |-> <<0, 0, 0>>]
             ELSE LET y == DecVal(SubSeq(dt, 1, 4))
                      m == DecVal(SubSeq(dt, 5, 6))
                      d == DecVal(SubSeq(dt, 7, 8))
                      hh == DecVal(SubSeq(dt, 9, 10))
                      mi == DecVal(SubSeq(dt, 11, 12))
                      ss == DecVal(SubSeq(dt, 13, 14))
                      us == DecVal(SubSeq(dt, 16, 21))
                      \* time.ParseInLocation("20060102150405.000000", dt[:sign], tz)
                      wellFormed ==
                          /\ AllDigits(SubSeq(dt, 1, 14))
                          /\ dt[15] \in {".", ","}
                          /\ AllDigits(SubSeq(dt, 16, 21))
                          /\ m \in 1..12 /\ d \in 1..DaysIn(y, m)
                          /\ hh < 24 /\ mi < 60 /\ ss < 60
                  IN  IF ~wellFormed
                      THEN [err |-> "failed to parse datetime", t |-> <<0, 0, 0>>]
                      ELSE [err |-> "nil", t |-> Instant(y, m, d, hh, mi, ss, us, off)]

\* filepath.IsAbs on Windows: a volume name followed by a separator, or any
\* path whose volume name begins with two separators.
IsAbsVol(path, l) ==
    IF l = 0 THEN FALSE
    ELSE IF IsSlash(path[1]) /\ IsSlash(path[2]) THEN TRUE
    ELSE Len(path) > l /\ IsSlash(path[l + 1])

IsAbs(path) == IsAbsVol(path, volumeNameLen(path))

\* The elements of a cleaned path after its volume name: none for "", "." and
\* the root.
RelElems(rest) ==
    IF rest = <<>> \/ rest = <<".">> \/ rest = <<"\\">> THEN <<>>
    ELSE SplitSlash(IF rest[1] = "\\" THEN Tail(rest) ELSE rest)

\* The number of leading elements base and targ share, ignoring case.
RECURSIVE RelCommon(_, _)
RelCommon(bc, tc) ==
    IF bc = <<>> \/ tc = <<>> THEN 0
    ELSE IF ~EqualFold(bc[1], tc[1]) THEN 0
    ELSE 1 + RelCommon(Tail(bc), Tail(tc))

\* Rel's result from the elements: bc and tc with their n common leading
\* elements: ".." for every element left of the base, then what is left of
\* the target.
RelUp(bc, tc, n) ==
    IF n < Len(bc) /\ bc[n + 1] = <<".", ".">>
    THEN [err |-> "Rel: can't make relative", rel |-> <<>>]
    ELSE [err |-> "nil",
          rel |-> JoinSlash([i \in 1..(Len(bc) - n) |-> <<".", ".">>]
                            \o SubSeq(tc, n + 1, Len(tc)))]

RelElemsOf(bc, tc) == RelUp(bc, tc, RelCommon(bc, tc))

\* Rel on the cleaned paths, cut into volume names and the rest: a base that
\* is "." counts as empty, the empty rest of a UNC base as the root.
RelRest(baseVol, b, targVol, t) ==
    IF (b # <<>> /\ b[1] = "\\") # (t # <<>> /\ t[1] = "\\") \/ ~EqualFold(baseVol, targVol)
    THEN [err |-> "Rel: can't make relative", rel |-> <<>>]
    ELSE RelElemsOf(RelElems(b), RelElems(t))

RelBase(baseVol, b, targVol, t) ==
    RelRest(baseVol,
            IF b = <<".">> THEN <<>>
            ELSE IF b = <<>> /\ Len(baseVol) > 2 THEN <<"\\">> ELSE b,
            targVol, t)

RelClean(base, nb, targ, nt) ==
    IF EqualFold(targ, base) THEN [err |-> "nil", rel |-> <<".">>]
    ELSE RelBase(SubSeq(base, 1, nb), SubSeq(base, nb + 1, Len(base)),
                 SubSeq(targ, 1, nt), SubSeq(targ, nt + 1, Len(targ)))

RelCleaned(base, targ) == RelClean(base, volumeNameLen(base), targ, volumeNameLen(targ))

\* filepath.Rel
Rel(basepath, targpath) == RelCleaned(Clean(basepath), Clean(targpath))

\* ------------------------------------------------------------------------
\* Constants of the package and of Windows
\* ------------------------------------------------------------------------

scDevPrefix == <<"\\","\\","?","\\","G","L","O","B","A","L","R","O","O","T","\\","D","e","v","i","c","e","\\","H","a","r","d","d","i","s","k","V","o","l","u","m","e","S","h","a","d","o","w","C","o","p","y">>
\* const prefix = `\\?\` of get
linkPrefix == <<"\\","\\","?","\\">>
\* The NT object namespace prefix a symlink's substitute name carries.
ntPrefix == <<"\\","?","?","\\">>
MAX_PATH == 260
volTemplate == <<"\\","\\","?","\\","V","o","l","u","m","e","{","x","x","x","x","x","x","x","x","-","x","x","x","x","-","x","x","x","x","-","x","x","x","x","-","x","x","x","x","x","x","x","x","x","x","x","x","}","\\">>
volLen == Len(volTemplate)
volPrefix == <<"\\","\\","?","\\","V","o","l","u","m","e","{">>

\* ------------------------------------------------------------------------
\* The environment: volumes, shadow copies, the file system
\* ------------------------------------------------------------------------

\* The number of shadow copies the provider creates in a run.
MaxCreate == 2

Volumes == {1, 2}
DriveLetters == <<"C", "D">>
MountPoint(k) == <<DriveLetters[k], ":", "\\">>
VolGuid(k) ==
    volPrefix
    \o <<"1","b","2","c","3","d","4","e","-","0","0","0","0","-","0","0","0","0","-","0","0","0","0","-","0","0","0","0","0","0","0","0","0","0","0">>
    \o <<HexSeq[k + 1], "}", "\\">>

RECURSIVE Decimal(_)
Decimal(n) == IF n < 10 THEN <<HexSeq[n + 1]>> ELSE Decimal(n \div 10) \o <<HexSeq[(n % 10) + 1]>>

\* The n-th shadow copy the provider creates, of volume k: an instance of
\* Win32_ShadowCopy.  Its ID and its device are new; InstallDate is a CIM
\* datetime.
GuidBody == <<"3","F","2","5","0","4","E","0","-","4","F","8","9","-","1","1","D","3","-","9","A","0","C","-","0","3","0","5","E","8","2","C","3","3","0">>
ShadowID(n) == <<"{">> \o GuidBody \o <<HexSeq[n + 1], "}">>
DeviceOf(n) == scDevPrefix \o Decimal(n)
Win32_ShadowCopy(n, k) ==
    [ID |-> ShadowID(n),
     InstallDate |-> <<"2","0","2","3","1","2","1","3","0","1","2","2","5">> \o <<HexSeq[(n % 10) + 1]>>
                     \o <<".","1","0","8","1","2","4","-","3","0","0">>,
     DeviceObject |-> DeviceOf(n),
     VolumeName |-> VolGuid(k),
     ClientAccessible |-> TRUE]

\* Names of the file system the model uses.
PathSnap == <<"C",":","\\","m","n","t","\\","s","n","a","p">>
PathSnapAlt == <<"c",":","/","m","n","t","/",".","/","s","n","a","p","/">>
\* A relative path that is also the bare form of the first shadow copy's ID.
PathHex == SelectSeq(GuidBody, LAMBDA c : c # "-") \o <<"1">>
PathDir == <<"C",":","\\","m","n","t">>
PathLnk == <<"C",":","\\","l","n","k">>
PathData == <<"C",":","\\","d","a","t","a">>


\* The name under which the file system knows a path: cleaned, case ignored.
OsKey(name) == ToUpper(Clean(name))

NoEntry == [kind |-> "none", subst |-> <<>>, rel |-> FALSE]
DirEntry == [kind |-> "dir", subst |-> <<>>, rel |-> FALSE]

\* The reparse point CreateSymbolicLink stores for a target: the substitute
\* name of an absolute target is its NT path.
SymlinkEntry(target) ==
    IF HasPrefix(target, linkPrefix)
    THEN [kind |-> "symlink", rel |-> FALSE,
          subst |-> ntPrefix \o SubSeq(target, Len(linkPrefix) + 1, Len(target))]
    ELSE IF Len(target) >= 2 /\ target[2] = ":"
    THEN [kind |-> "symlink", rel |-> FALSE, subst |-> ntPrefix \o target]
    ELSE [kind |-> "symlink", rel |-> TRUE, subst |-> target]

\* The file system at the start: a directory, a symlink to a directory that is
\* no shadow copy, and free names.
InitFs ==
    (OsKey(PathDir) :> DirEntry) @@ (OsKey(PathLnk) :> SymlinkEntry(PathData))
    @@ (OsKey(PathSnap) :> NoEntry) @@ (OsKey(PathHex) :> NoEntry)

Ev(k, a, b) == [k |-> k, a |-> a, b |-> b]

\* The shadow copies that exist, in the provider's enumeration order.
RECURSIVE InstancesFrom(_, _)
InstancesFrom(st, n) ==
    IF n > Len(st.created) THEN <<>>
    ELSE (IF n \in st.alive THEN <<Win32_ShadowCopy(n, st.created[n])>> ELSE <<>>)
         \o InstancesFrom(st, n + 1)

Instances(st) == InstancesFrom(st, 1)

\* WQL compares strings ignoring case.  A query is [field, lit]: the property
\* of the WHERE clause ("" for none) and its quoted literal.
WqlMatch(o, q) == q.field = "" \/ EqualFold(o[q.field], WqlUnquote(q.lit))

OsExecQuery(st, q) == SelectSeq(Instances(st), LAMBDA o : WqlMatch(o, q))

PickOr0(S) == IF S = {} THEN 0 ELSE CHOOSE k \in S : TRUE

\* The volume a name designates to the volume manager: a mount point or a
\* volume GUID name, with its trailing backslash; 0 if none.
OsVolumeOf(name) ==
    PickOr0({k \in Volumes : EqualFold(name, MountPoint(k)) \/ EqualFold(name, VolGuid(k))})

\* Win32_ShadowCopy.Create of the volume k as the n-th shadow copy: return
\* code 0 and the new ID, or 3 (Specified volume not found).
OsCreateOn(st, k, n) ==
    IF k = 0 THEN [rc |-> 3, id |-> <<>>, st |-> st]
    ELSE [rc |-> 0, id |-> ShadowID(n),
          st |-> [st EXCEPT !.created = Append(@, k), !.alive = @ \cup {n}]]

OsCreate(st, vol) == OsCreateOn(st, OsVolumeOf(vol), Len(st.created) + 1)

OsDeleteSet(st, hit) ==
    IF hit = {} THEN [err |-> "wmi: object not found", st |-> st]
    ELSE [err |-> "nil", st |-> [st EXCEPT !.alive = @ \ hit]]

\* SWbemServices.Delete of the object path Win32_ShadowCopy.ID=lit
OsDelete(st, lit) ==
    OsDeleteSet(st, {n \in st.alive : EqualFold(ShadowID(n), WqlUnquote(lit))})

VolumeNameOf(k) ==
    IF k = 0 THEN [err |-> "no such mount point", name |-> <<>>]
    ELSE [err |-> "nil", name |-> VolGuid(k)]

\* windows.GetVolumeNameForVolumeMountPoint
GetVolumeNameForVolumeMountPoint(name) == VolumeNameOf(OsVolumeOf(name))

FsAt(f, k) == IF k \in DOMAIN f THEN f[k] ELSE NoEntry

FsEntry(st, name) == FsAt(st.fs, OsKey(name))

CreateSymbolicLinkAt(st, k, en, ev) ==
    IF FsAt(st.fs, k).kind # "none" \/ k \notin DOMAIN st.fs
    THEN [st |-> st, err |-> "CreateSymbolicLink failed", ev |-> <<ev>>]
    ELSE [st |-> [st EXCEPT !.fs[k] = en], err |-> "nil", ev |-> <<ev>>]

\* syscall.CreateSymbolicLink: fails if the name exists
CreateSymbolicLink(st, name, target) ==
    CreateSymbolicLinkAt(st, OsKey(name), SymlinkEntry(target),
                         Ev("CreateSymbolicLink", name, target))

\* The Win32 form of the NT path t: \??\UNC\ becomes \\
Win32Name(t) ==
    IF Len(t) >= 2 /\ t[2] = ":" THEN t
    ELSE IF HasPrefix(t, <<"U","N","C","\\">>) THEN <<"\\","\\">> \o SubSeq(t, 5, Len(t))
    ELSE t

\* What Readlink reports of a reparse point: the substitute name without its
\* \??\ prefix.
LinkTarget(en) ==
    IF en.rel \/ ~HasPrefix(en.subst, ntPrefix) THEN en.subst
    ELSE Win32Name(SubSeq(en.subst, Len(ntPrefix) + 1, Len(en.subst)))

Truncate(s, n) == SubSeq(s, 1, IF Len(s) < n THEN Len(s) ELSE n)

ReadlinkEntry(en, size) ==
    IF en.kind # "symlink" THEN [err |-> "not a reparse point", s |-> <<>>]
    ELSE [err |-> "nil", s |-> Truncate(LinkTarget(en), size)]

\* syscall.Readlink into a buffer of size bytes
Readlink(st, name, size) == ReadlinkEntry(FsEntry(st, name), size)

RemoveDirectoryAt(st, k, ev) ==
    IF FsAt(st.fs, k).kind = "symlink"
    THEN [st |-> [st EXCEPT !.fs[k] = NoEntry], err |-> "nil", ev |-> <<ev>>]
    ELSE [st |-> st, err |-> "RemoveDirectory failed", ev |-> <<ev>>]

\* syscall.RemoveDirectory
RemoveDirectory(st, name) ==
    RemoveDirectoryAt(st, OsKey(name), Ev("RemoveDirectory", name, <<>>))

\* ------------------------------------------------------------------------
\* wmi.go: the COM/WMI session and the query executor
\* ------------------------------------------------------------------------

\* What the environment does to one wmiExec session: the HRESULT of
\* CoInitializeEx, whether ConnectServer succeeds, and which WMI call made
\* inside fn fails (0: none).
Sessions ==
    {[hr |-> "S_OK", connect |-> TRUE, fail |-> 0],
     [hr |-> "S_FALSE", connect |-> TRUE, fail |-> 0],
     [hr |-> "RPC_E_CHANGED_MODE", connect |-> TRUE, fail |-> 0],
     [hr |-> "S_OK", connect |-> FALSE, fail |-> 0],
     [hr |-> "S_OK", connect |-> TRUE, fail |-> 1],
     [hr |-> "S_OK", connect |-> TRUE, fail |-> 2]}

Healthy == [hr |-> "S_OK", connect |-> TRUE, fail |-> 0]

\* The environments of a call that opens up to n sessions, each drawn from S:
\* at most one of the sessions is not the healthy one.
Plans(n, S) ==
    {[i \in 1..n |-> IF i = j THEN e ELSE Healthy] : j \in 1..n, e \in S}

\* ole.CoInitializeEx returns an *OleError unless the HRESULT is S_OK.
CoInitializeExErr(hr) == IF hr = "S_OK" THEN "nil" ELSE hr

\* An initCOM that takes every answer of CoInitializeEx for success.
initCOMErrNone(e) == "nil"

\* initCOM after CoInitializeEx returned e: S_FALSE (already initialized) is
\* success; any other error is returned (the earlier revision wraps it with
\* %w, which keeps it the same error to errors.Is).
initCOMErr(e) ==
    IF e # "nil" /\ (e # "S_OK" /\ e # "S_FALSE") THEN e ELSE "nil"

\* initCOM locks the OS thread and initializes the COM library; on an error
\* the deferred function unlocks the thread.
initCOM(hr) ==
    [err |-> initCOMErr(CoInitializeExErr(hr)),
     ev |-> <<Ev("LockOSThread", <<>>, <<>>), Ev("CoInitializeEx", <<hr>>, <<>>)>>
            \o (IF initCOMErr(CoInitializeExErr(hr)) # "nil"
                THEN <<Ev("UnlockOSThread", <<>>, <<>>)>> ELSE <<>>)]

\* The function initCOM returns: uninit
uninit == <<Ev("CoUninitialize", <<>>, <<>>), Ev("UnlockOSThread", <<>>, <<>>)>>

\* wmiExec after initCOM returned i.
wmiExecInit(st, e, r, i) ==
    IF i.err # "nil"
    THEN [st |-> st, err |-> i.err, out |-> <<>>, ev |-> i.ev]
    ELSE IF ~e.connect
    THEN [st |-> st, err |-> "ConnectServer failed", out |-> <<>>,
          ev |-> i.ev \o <<Ev("ConnectServer", <<>>, <<>>)>> \o uninit]
    ELSE [st |-> r.st, err |-> r.err, out |-> r.out,
          ev |-> i.ev \o <<Ev("ConnectServer", <<>>, <<>>)>> \o r.ev
                 \o <<Ev("Release", <<>>, <<>>)>> \o uninit]

\* wmiExec calls fn after initializing the COM library.  r is what fn does
\* and returns when it is called on the state st.
wmiExec(st, e, r) == wmiExecInit(st, e, r, initCOM(e.hr))

\* The variables of queryOne and the error of execQuery so far, before
\* execQuery runs: calls counts the calls of fn.
queryOneVars == [err |-> "nil", ok |-> FALSE, out |-> <<>>, calls |-> 0]

\* A closure that does not remember that it has been called.
queryOneFnAgain(c, r) ==
    [err |-> r.err, ok |-> FALSE, out |-> r.out, calls |-> c.calls + 1]

\* The closure queryOne hands to execQuery, called on an object on which fn
\* returns r; c holds the variables the closure captures.
queryOneFn(c, r) ==
    IF c.ok THEN [c EXCEPT !.err = "multiple matches"]
    ELSE [err |-> r.err, ok |-> TRUE, out |-> r.out, calls |-> c.calls + 1]

\* oleutil.ForEach over the objects of the result from the i-th on: res[i] is
\* what fn returns on the i-th object.  ForEach stops at the first error.
RECURSIVE queryOneEach(_, _, _)
queryOneEach(res, i, c) ==
    IF i > Len(res) \/ c.err # "nil" THEN c
    ELSE queryOneEach(res, i + 1, queryOneFn(c, res[i]))

\* execQuery when the call of ExecQuery itself fails.
execQueryFailed == [queryOneVars EXCEPT !.err = "ExecQuery failed"]

\* queryOne after execQuery returned e.
queryOneEnd(e) ==
    [out |-> e.out,
     err |-> IF e.err = "nil" /\ ~e.ok THEN "not found" ELSE e.err,
     calls |-> e.calls]

\* queryOne executes a query expecting to get exactly one object and returns
\* the result of calling fn on it.  execOk: whether ExecQuery itself succeeds.
queryOne(execOk, res) ==
    queryOneEnd(IF execOk THEN queryOneEach(res, 1, queryOneVars) ELSE execQueryFailed)

\* ------------------------------------------------------------------------
\* vss.go: the privilege check and the shadow-copy operations
\* ------------------------------------------------------------------------

ZeroTime == <<0, 0, 0>>

\* The time a datetime property leaves in its field: the zero time when
\* parsing failed.
TimeOrZero(p) == IF p.err = "nil" THEN p.t ELSE ZeroTime

\* getProp/tryGetProp of a datetime property into a time.Time: the property's
\* CIM datetime parsed; the field is left zero when that fails.
tryGetPropTime(v) == TimeOrZero(parseDateTime(v))

\* unpack converts Win32_ShadowCopy object into ShadowCopy.
unpack(v) ==
    [ID |-> v.ID,
     InstallDate |-> tryGetPropTime(v.InstallDate),
     DeviceObject |-> v.DeviceObject,
     VolumeName |-> v.VolumeName]

ZeroShadowCopy == [ID |-> <<>>, InstallDate |-> ZeroTime, DeviceObject |-> <<>>, VolumeName |-> <<>>]

\* The function isAdmin caches: whether the current thread's token is a
\* member of the Administrators group.  tok: what the security calls answer.
adminTest(tok) == IF ~tok.alloc THEN FALSE ELSE tok.member /\ ~tok.err

Tokens ==
    {[alloc |-> TRUE, member |-> TRUE, err |-> FALSE],
     [alloc |-> TRUE, member |-> FALSE, err |-> FALSE],
     [alloc |-> TRUE, member |-> TRUE, err |-> TRUE],
     [alloc |-> FALSE, member |-> TRUE, err |-> FALSE]}

\* isAdmin = sync.OnceValue(...): the first call runs the test, every later
\* call returns the value the first one stored.
isAdmin(st) ==
    IF st.once.done THEN [st |-> st, val |-> st.once.val]
    ELSE [st |-> [st EXCEPT !.once = [done |-> TRUE, val |-> adminTest(st.tok),
                                      runs |-> @.runs + 1]],
          val |-> adminTest(st.tok)]

\* The shape of what an operation of the API returns and does.
Result(st, err, out, symlink, id, ev) ==
    [st |-> st, err |-> err, out |-> out, symlink |-> symlink, id |-> id, ev |-> ev]

NotAdmin(st) == Result(st, "errNotAdmin", <<>>, <<>>, <<>>, <<>>)

\* A volume name with the trailing separator the calls require.
WithSlash(v) == IF v # <<>> /\ v[Len(v)] # "\\" THEN v \o <<"\\">> ELSE v

\* create after Win32_ShadowCopy.Create returned c.
createEnd(c, ev) ==
    IF c.rc = 0 /\ NewGUID(c.id) # Nil
    THEN [st |-> c.st, err |-> "nil", out |-> NewGUID(c.id), ev |-> ev]
    ELSE [st |-> c.st, err |-> "Win32_ShadowCopy.Create returned", out |-> <<>>, ev |-> ev]

\* create with vol given its trailing separator.
createVol(st, name, e) ==
    IF e.fail = 1
    THEN [st |-> st, err |-> "failed to get Win32_ShadowCopy", out |-> <<>>,
          ev |-> <<Ev("WMI.Get", <<>>, <<>>)>>]
    ELSE IF e.fail = 2
    THEN [st |-> st, err |-> "Win32_ShadowCopy.Create failed", out |-> <<>>,
          ev |-> <<Ev("WMI.Get", <<>>, <<>>), Ev("WMI.Create", name, <<>>)>>]
    ELSE createEnd(OsCreate(st, name),
                   <<Ev("WMI.Get", <<>>, <<>>), Ev("WMI.Create", name, <<>>)>>)

\* create creates a new shadow copy of the specified volume and returns its ID.
create(st, vol, e) == createVol(st, WithSlash(FromSlash(vol)), e)

\* Create after wmiExec returned w.
CreateEnd(w) ==
    Result(w.st, w.err, <<>>, <<>>, IF w.err = "nil" THEN GuidString(w.out) ELSE <<>>, w.ev)

CreateAs(a, vol, e) ==
    IF ~a.val THEN NotAdmin(a.st) ELSE CreateEnd(wmiExec(a.st, e, create(a.st, vol, e)))

\* Create creates a new shadow copy of the specified volume and returns its ID.
Create(st, vol, e) == CreateAs(isAdmin(st), vol, e)

\* The function get hands to wmiExec, on the objects the query selects:
\* queryOne(s, wql, unpack)
getFnEnd(q, r) ==
    [err |-> r.err, out |-> r.out, ev |-> <<Ev("WMI.ExecQuery", q.lit, <<q.field>>)>>]

getFn(st, q, e, objs) ==
    [st |-> st] @@
    getFnEnd(q, queryOne(e.fail # 1,
                         [i \in 1..Len(objs) |-> [out |-> <<unpack(objs[i])>>, err |-> "nil"]]))

\* The query of get: by [field, lit], a symlink's cleaned path if the name is
\* one, and the file system calls made.
Wql(err, field, lit, symlink, ev) ==
    [err |-> err, field |-> field, lit |-> lit, symlink |-> symlink, ev |-> ev]

\* get of a symlink: rl is what Readlink returned for the cleaned name.
getWqlLink(cname, rl) ==
    IF rl.err # "nil"
    THEN Wql("not a symlink", "", <<>>, <<>>, <<Ev("Readlink", cname, <<>>)>>)
    ELSE IF ~hasPrefixFold(linkPrefix \o rl.s, scDevPrefix)
    THEN Wql("not a shadow copy symlink", "", <<>>, <<>>, <<Ev("Readlink", cname, <<>>)>>)
    ELSE Wql("nil", "DeviceObject", GoQuote(TrimSuffix(linkPrefix \o rl.s, <<"\\">>)),
             cname, <<Ev("Readlink", cname, <<>>)>>)

\* A get that takes every name that is not a GUID for a symlink.
getWqlAnyLink(st, id, cname) ==
    IF id # Nil
    THEN Wql("nil", "ID", GoQuote(GuidString(id)), <<>>, <<>>)
    ELSE getWqlLink(cname, Readlink(st, cname, MAX_PATH - Len(linkPrefix)))

\* The query get builds for a name: id is NewGUID(name), cname Clean(name).
getWql(st, id, cname) ==
    IF id # Nil
    THEN Wql("nil", "ID", GoQuote(GuidString(id)), <<>>, <<>>)
    ELSE IF hasPrefixFold(cname, scDevPrefix)
    THEN Wql("nil", "DeviceObject", GoQuote(TrimSuffix(cname, <<"\\">>)), <<>>, <<>>)
    ELSE getWqlLink(cname, Readlink(st, cname, MAX_PATH - Len(linkPrefix)))

\* get after wmiExec returned w.
getEnd(q, w) == Result(w.st, w.err, w.out, q.symlink, <<>>, q.ev \o w.ev)

getExec(st, q, e) ==
    IF q.err # "nil" THEN Result(st, q.err, <<>>, <<>>, <<>>, q.ev)
    ELSE getEnd(q, wmiExec(st, e, getFn(st, q, e, OsExecQuery(st, q))))

\* get returns the ShadowCopy for the specified ID, DeviceObject, or symlink
\* path.  If name is a symlink, then it also returns the Cleaned path.
get(st, name, e) == getExec(st, getWql(st, NewGUID(name), Clean(name)), e)

\* Get after get returned g.
GetEnd(g) == Result(g.st, g.err, g.out, <<>>, <<>>, g.ev)

\* A Get that does not test the privilege.
GetAsAnyone(a, name, e) == GetEnd(get(a.st, name, e))

GetAs(a, name, e) == IF ~a.val THEN NotAdmin(a.st) ELSE GetEnd(get(a.st, name, e))

\* Get returns the ShadowCopy for the specified ID, DeviceObject, or symlink
\* path.
Get(st, name, e) == GetAs(isAdmin(st), name, e)

\* A volumeName that asks the volume manager about every name.
volumeNameAsk(name, r) ==
    IF r.err # "nil"
    THEN [err |-> "failed to get volume name", name |-> <<>>,
          ev |-> <<Ev("GetVolumeNameForVolumeMountPoint", name, <<>>)>>]
    ELSE [err |-> "nil", name |-> r.name,
          ev |-> <<Ev("GetVolumeNameForVolumeMountPoint", name, <<>>)>>]

\* volumeName with name given its trailing separator.
volumeNameOf(name, r) ==
    IF Len(name) # volLen \/ ~hasPrefixFold(name, volPrefix)
    THEN IF r.err # "nil"
         THEN [err |-> "failed to get volume name", name |-> <<>>,
               ev |-> <<Ev("GetVolumeNameForVolumeMountPoint", name, <<>>)>>]
         ELSE [err |-> "nil", name |-> r.name,
               ev |-> <<Ev("GetVolumeNameForVolumeMountPoint", name, <<>>)>>]
    ELSE [err |-> "nil", name |-> name, ev |-> <<>>]

volumeNameSlash(name) == volumeNameOf(name, GetVolumeNameForVolumeMountPoint(name))

\* volumeName converts a drive letter or a mounted folder to \\?\Volume{GUID}\
\* format.  If vol is already in the GUID format, it is returned unmodified,
\* except for the addition of a trailing slash.
volumeName(name) == volumeNameSlash(WithSlash(FromSlash(name)))

\* The function List hands to wmiExec, on the objects the query selects.
ListFn(st, q, e, objs) ==
    IF e.fail = 1
    THEN [st |-> st, err |-> "ExecQuery failed", out |-> <<>>,
          ev |-> <<Ev("WMI.ExecQuery", q.lit, <<>>)>>]
    ELSE [st |-> st, err |-> "nil", out |-> [i \in 1..Len(objs) |-> unpack(objs[i])],
          ev |-> <<Ev("WMI.ExecQuery", q.lit, <<>>)>>]

\* List after wmiExec returned w.
ListEnd(w, ev) == Result(w.st, w.err, w.out, <<>>, <<>>, ev \o w.ev)

ListQuery(st, q, e, ev) == ListEnd(wmiExec(st, e, ListFn(st, q, e, OsExecQuery(st, q))), ev)

\* A List that does not filter by the volume.
ListVolAll(st, vn, e) == ListQuery(st, [field |-> "", lit |-> <<>>], e, vn.ev)

\* List of a volume: vn is what volumeName returned.
ListVol(st, vn, e) ==
    IF vn.err # "nil" THEN Result(st, vn.err, <<>>, <<>>, <<>>, vn.ev)
    ELSE ListQuery(st, [field |-> "VolumeName", lit |-> GoQuote(vn.name)], e, vn.ev)

ListAs(a, vol, e) ==
    IF ~a.val THEN NotAdmin(a.st)
    ELSE IF vol # <<>> THEN ListVol(a.st, volumeName(vol), e)
    ELSE ListQuery(a.st, [field |-> "", lit |-> <<>>], e, <<>>)

\* List returns existing shadow copies.  If vol is non-empty, only shadow
\* copies for the specified volume are returned.
List(st, vol, e) == ListAs(isAdmin(st), vol, e)

\* Link creates a directory symlink pointing to the contents of the shadow copy.
scLinkEnd(r) == Result(r.st, r.err, <<>>, <<>>, <<>>, r.ev)

scLink(st, sc, name) == scLinkEnd(CreateSymbolicLink(st, name, sc.DeviceObject \o <<"\\">>))

\* The function ShadowCopy.Remove hands to wmiExec: d is what Delete does.
scRemoveFn(st, e, lit, d) ==
    IF e.fail = 1
    THEN [st |-> st, err |-> "wmi: call failed", out |-> <<>>, ev |-> <<Ev("WMI.Delete", lit, <<>>)>>]
    ELSE [st |-> d.st, err |-> d.err, out |-> <<>>, ev |-> <<Ev("WMI.Delete", lit, <<>>)>>]

scRemoveEnd(w) == Result(w.st, w.err, <<>>, <<>>, <<>>, w.ev)

scRemoveAs(a, lit, e) ==
    IF ~a.val THEN NotAdmin(a.st)
    ELSE scRemoveEnd(wmiExec(a.st, e, scRemoveFn(a.st, e, lit, OsDelete(a.st, lit))))

\* Remove removes the shadow copy.
scRemove(st, sc, e) == scRemoveAs(isAdmin(st), GoQuote(sc.ID), e)

\* The events of a call of Remove(name) begin with the call itself.
RemoveCalled(name, r) == [r EXCEPT !.ev = <<Ev("Remove", name, <<>>)>> \o @]

\* Remove after sc.Remove() returned r and RemoveDirectory rd.
RemoveEnd(g, r, rd) == Result(rd.st, rd.err, <<>>, <<>>, <<>>, g.ev \o r.ev \o rd.ev)

\* A Remove that leaves the symlink.
RemoveLinkKeep(g, r) == [r EXCEPT !.ev = g.ev \o @]

\* Remove after get returned g and sc.Remove() returned r.
RemoveLink(g, r) ==
    IF r.err = "nil" /\ g.symlink # <<>>
    THEN RemoveEnd(g, r, RemoveDirectory(r.st, g.symlink))
    ELSE [r EXCEPT !.ev = g.ev \o @]

\* Remove after get returned g.
RemoveGot(g, e) ==
    IF g.err # "nil" THEN Result(g.st, g.err, <<>>, <<>>, <<>>, g.ev)
    ELSE RemoveLink(g, scRemove(g.st, g.out[1], e))

RemoveAs(a, name, id, e1, e2) ==
    IF ~a.val THEN NotAdmin(a.st)
    ELSE IF id # Nil
    THEN RemoveCalled(name, scRemove(a.st, [ZeroShadowCopy EXCEPT !.ID = GuidString(id)], e1))
    ELSE RemoveCalled(name, RemoveGot(get(a.st, name, e1), e2))

\* Remove removes a shadow copy by ID, DeviceObject, or symlink path.  If a
\* valid symlink is specified, then it is also removed.
Remove(st, name, e1, e2) == RemoveAs(isAdmin(st), name, NewGUID(name), e1, e2)

\* CreateAt after sc.Link returned l.
CreateAtEnd(c, g, l) == [st |-> l.st, err |-> l.err, ev |-> c.ev \o g.ev \o l.ev]

\* The body of CreateAt after Create returned c without an error and get
\* returned g.
CreateAtGot(link, c, g) ==
    IF g.err # "nil" THEN [st |-> g.st, err |-> g.err, ev |-> c.ev \o g.ev]
    ELSE CreateAtEnd(c, g, scLink(g.st, g.out[1], link))

\* CreateAt after the deferred function called Remove, which returned rm.
CreateAtRemoved(b, rm) == Result(rm.st, b.err, <<>>, <<>>, <<>>, b.ev \o rm.ev)

\* A CreateAt without its deferred function.
CreateAtDeferNone(id, b, e) == Result(b.st, b.err, <<>>, <<>>, <<>>, b.ev)

\* The deferred function of CreateAt, run when the body b returns:
\* if err != nil { _ = Remove(id) }
CreateAtDefer(id, b, e) ==
    IF b.err # "nil" THEN CreateAtRemoved(b, Remove(b.st, id, e, e))
    ELSE Result(b.st, b.err, <<>>, <<>>, <<>>, b.ev)

\* CreateAt after Create returned c.
CreateAtCreated(link, c, e2, e3) ==
    IF c.err # "nil" THEN Result(c.st, c.err, <<>>, <<>>, <<>>, c.ev)
    ELSE CreateAtDefer(c.id, CreateAtGot(link, c, get(c.st, c.id, e2)), e3)

\* CreateAt creates a new shadow copy and symlinks it at the specified path.
\* The shadow copy is removed if symlinking fails.
CreateAt(st, link, vol, e1, e2, e3) == CreateAtCreated(link, Create(st, vol, e1), e2, e3)

\* The terminator of a string in a buffer of UTF-16 code units.
NUL == "NUL"

\* A list of strings as the volume manager writes it: every string with its
\* terminator, and one more terminator.
RECURSIVE MultiString(_)
MultiString(paths) ==
    IF paths = <<>> THEN <<NUL>> ELSE paths[1] \o <<NUL>> \o MultiString(Tail(paths))

\* windows.GetVolumePathNamesForVolumeName for the volume named vol, which is
\* in the state m of the volume manager if there is such a volume: the code units written and the length reported, or an
\* error with the length needed.
GetVolumePathNamesForVolumeName(vol, m) ==
    IF OsVolumeOf(vol) = 0 THEN [err |-> "ERROR_FILE_NOT_FOUND", w |-> <<>>, n |-> 0]
    ELSE IF m.err # "nil" THEN [err |-> m.err, w |-> <<>>, n |-> m.n]
    ELSE [err |-> "nil", w |-> MultiString(m.paths), n |-> Len(MultiString(m.paths))]

\* buf[:n] of the zeroed buffer the code units w were written to.
BufTo(w, n) == [i \in 1..n |-> IF i <= Len(w) THEN w[i] ELSE NUL]

\* The number of code units of b before its first terminator.
NulAt(b) ==
    IF \E i \in 1..Len(b) : b[i] = NUL
    THEN (CHOOSE i \in 1..Len(b) : b[i] = NUL /\ \A j \in 1..(i - 1) : b[j] # NUL) - 1
    ELSE Len(b)

\* The loop of volumePaths over b while it is longer than least, all being
\* the strings found so far; volumePathsCut is one round, the next string
\* ending before b[i].
RECURSIVE volumePathsLoop(_, _, _)
RECURSIVE volumePathsCut(_, _, _, _)
volumePathsLoop(b, all, least) ==
    IF Len(b) > least THEN volumePathsCut(b, NulAt(b), all, least) ELSE all

volumePathsCut(b, i, all, least) ==
    volumePathsLoop(SubSeq(b, (IF i + 1 < Len(b) THEN i + 1 ELSE Len(b)) + 1, Len(b)),
                    Append(all, SubSeq(b, 1, i)), least)

\* A volumePaths that reads buf[:n] to its last code unit.
volumePathsAll(r) ==
    IF r.err # "nil" \/ 2 * MAX_PATH < r.n
    THEN [err |-> "failed to get volume paths", all |-> <<>>]
    ELSE [err |-> "nil", all |-> volumePathsLoop(BufTo(r.w, r.n), <<>>, 0)]

\* volumePaths after GetVolumePathNamesForVolumeName returned r.
volumePathsOf(r) ==
    IF r.err # "nil" \/ 2 * MAX_PATH < r.n
    THEN [err |-> "failed to get volume paths", all |-> <<>>]
    ELSE [err |-> "nil", all |-> volumePathsLoop(BufTo(r.w, r.n), <<>>, 1)]

\* volumePaths returns all mount points for the specified volume name.
volumePaths(vol, m) == volumePathsOf(GetVolumePathNamesForVolumeName(vol, m))

\* A VolumePath that returns the last mount point.
VolumePathLast(r) ==
    IF r.err # "nil" \/ Len(r.all) = 0 THEN [err |-> r.err, path |-> <<>>]
    ELSE [err |-> "nil", path |-> r.all[Len(r.all)]]

\* VolumePath after volumePaths returned r.
VolumePathOf(r) ==
    IF r.err # "nil" \/ Len(r.all) = 0 THEN [err |-> r.err, path |-> <<>>]
    ELSE [err |-> "nil", path |-> r.all[1]]

\* VolumePath returns the drive letter and/or folder where the shadow copy's
\* original volume is mounted.  If the volume is mounted at multiple
\* locations, only the first one is returned.
VolumePath(vol, m) == VolumePathOf(volumePaths(vol, m))

\* The depth of the deepest mounted folder.
MaxMountDepth == 1

\* The mount point the volume manager has on the path name, when the volume
\* is mounted d folders below the root of name's volume name: the root, or
\* the path down to the d-th folder, with a trailing backslash.
MountPathAt(name, n, elems, d) ==
    SubSeq(name, 1, n) \o <<"\\">>
    \o (IF d = 0 \/ elems = <<>> THEN <<>>
        ELSE JoinSlash(SubSeq(elems, 1, IF d < Len(elems) THEN d ELSE Len(elems))) \o <<"\\">>)

MountPathOf(name, n, d) ==
    MountPathAt(name, n, RelElems(SubSeq(name, n + 1, Len(name))), d)

\* windows.GetVolumePathName: d < 0 when the call fails.
GetVolumePathName(name, d) ==
    IF d < 0 THEN [err |-> "ERROR_FILE_NOT_FOUND", vol |-> <<>>]
    ELSE [err |-> "nil", vol |-> MountPathOf(name, volumeNameLen(name), d)]

\* SplitVolume after filepath.Rel returned r.
SplitVolumeRel(vol, r) == [vol |-> vol, rel |-> r.rel, err |-> r.err, os |-> TRUE]

\* SplitVolume after GetVolumePathName returned g for the cleaned name.
SplitVolumeGot(name, g) ==
    IF g.err # "nil"
    THEN [vol |-> <<>>, rel |-> <<>>, err |-> "GetVolumePathName failed", os |-> TRUE]
    ELSE SplitVolumeRel(g.vol, Rel(g.vol, name))

\* A SplitVolume that asks the volume manager about every path.
SplitVolumeAny(name, d) == SplitVolumeGot(name, GetVolumePathName(name, d))

\* SplitVolume on the cleaned name; os: whether the volume manager was asked.
SplitVolumeClean(name, d) ==
    IF ~IsAbs(name)
    THEN [vol |-> <<>>, rel |-> <<>>, err |-> "path without volume", os |-> FALSE]
    ELSE SplitVolumeGot(name, GetVolumePathName(name, d))

\* SplitVolume splits an absolute file path into its volume mount point and
\* the path relative to the mount.
SplitVolume(name, d) == SplitVolumeClean(Clean(name), d)

\* ------------------------------------------------------------------------
\* vss.go, the earlier revision: Create, Link, LinkNew and Delete.  Its
\* Create, create and volumeName carry the suffix 0 here.
\* ------------------------------------------------------------------------

\* The earlier volumeName with vol given its trailing separator: the prefix
\* is compared as written.
volumeName0Of(vol, r) ==
    IF Len(vol) # volLen \/ ~HasPrefix(vol, volPrefix)
    THEN IF r.err # "nil"
         THEN [err |-> "failed to get volume name", name |-> <<>>,
               ev |-> <<Ev("GetVolumeNameForVolumeMountPoint", vol, <<>>)>>]
         ELSE [err |-> "nil", name |-> r.name,
               ev |-> <<Ev("GetVolumeNameForVolumeMountPoint", vol, <<>>)>>]
    ELSE [err |-> "nil", name |-> vol, ev |-> <<>>]

volumeName0Slash(vol) == volumeName0Of(vol, GetVolumeNameForVolumeMountPoint(vol))

\* A call that ended in a run-time panic, and one that returned r.
Panicked == [panic |-> TRUE, err |-> "nil", name |-> <<>>, ev |-> <<>>]
Returns(r) == [panic |-> FALSE, err |-> r.err, name |-> r.name, ev |-> r.ev]

\* An earlier volumeName that tests for the empty string as the current one.
volumeName0Guarded(vol) == Returns(volumeName0Slash(WithSlash(vol)))

\* The earlier volumeName after FromSlash: vol[len(vol)-1] is out of range
\* for the empty string.
volumeName0From(vol) ==
    IF vol = <<>> THEN Panicked
    ELSE Returns(volumeName0Slash(IF vol[Len(vol)] # "\\" THEN vol \o <<"\\">> ELSE vol))

\* volumeName of the earlier revision.
volumeName0(vol) == volumeName0From(FromSlash(vol))

\* The earlier volumePaths after GetVolumePathNamesForVolumeName returned r:
\* n is decremented first, and 0 wraps around to the largest uint32.
volumePaths0Of(r) ==
    IF r.err # "nil" \/ r.n = 0 \/ 2 * MAX_PATH < r.n - 1
    THEN [err |-> "failed to get volume paths", all |-> <<>>]
    ELSE [err |-> "nil", all |-> volumePathsLoop(BufTo(r.w, r.n - 1), <<>>, 0)]

volumePaths0(vol, m) == volumePaths0Of(GetVolumePathNamesForVolumeName(vol, m))

\* The characters of mount points in the order of their bytes.
ByteOrder == SubSeq(HexSeq, 1, 10) \o <<":">> \o UpperSeq \o <<"\\">> \o LowerSeq
ByteOf(c) == CHOOSE i \in 1..Len(ByteOrder) : ByteOrder[i] = c

\* sort.Strings on paths of letters, ":" and "\": s sorts before t.
RECURSIVE StringLess(_, _)
StringLess(s, t) ==
    IF t = <<>> THEN FALSE
    ELSE IF s = <<>> THEN TRUE
    ELSE IF s[1] = t[1] THEN StringLess(Tail(s), Tail(t))
    ELSE ByteOf(s[1]) < ByteOf(t[1])

\* m[0] after sort.Strings(m)
SortedFirst(m) == CHOOSE s \in Range(m) : \A t \in Range(m) : ~StringLess(t, s)

\* The earlier VolumePath after volumePaths returned r: the mount points are
\* sorted first.
VolumePath0Of(r) ==
    IF r.err # "nil" \/ Len(r.all) = 0 THEN [err |-> r.err, path |-> <<>>]
    ELSE [err |-> "nil", path |-> SortedFirst(r.all)]

VolumePath0(vol, m) == VolumePath0Of(volumePaths0(vol, m))

\* parseID ensures that id is a valid GUID.
parseID(id) ==
    IF NewGUID(id) # Nil THEN [err |-> "nil", g |-> NewGUID(id)]
    ELSE [err |-> "invalid ID", g |-> Nil]

\* create creates a new shadow copy of the specified volume and returns its ID.
create0(st, vol, e) == createVol(st, VolumeName(vol) \o <<"\\">>, e)

\* Create creates a new shadow copy of the specified volume and returns its ID.
Create0(st, vol, e) == CreateEnd(wmiExec(st, e, create0(st, vol, e)))

\* queryOne with a function that returns the property prop of the object.
queryProp(q, e, objs, prop) ==
    getFnEnd(q, queryOne(e.fail # 1, [i \in 1..Len(objs) |-> [out |-> objs[i][prop], err |-> "nil"]]))

\* deviceObjectOfID returns the DeviceObject property of the specified shadow
\* copy ID.
deviceObjectOfIDQuery(st, q, e) == queryProp(q, e, OsExecQuery(st, q), "DeviceObject")

deviceObjectOfID(st, g, e) ==
    [st |-> st] @@ deviceObjectOfIDQuery(st, [field |-> "ID", lit |-> GoQuote(GuidString(g))], e)

\* Link after wmiExec returned w and CreateSymbolicLink l.
Link0End(w, l) == Result(l.st, l.err, <<>>, <<>>, <<>>, w.ev \o l.ev)

\* Link after wmiExec returned w.
Link0Got(link, w) ==
    IF w.err # "nil" THEN Result(w.st, w.err, <<>>, <<>>, <<>>, w.ev)
    ELSE Link0End(w, CreateSymbolicLink(w.st, link, w.out \o <<"\\">>))

Link0ID(st, link, p, e) ==
    IF p.err # "nil" THEN Result(st, p.err, <<>>, <<>>, <<>>, <<>>)
    ELSE Link0Got(link, wmiExec(st, e, deviceObjectOfID(st, p.g, e)))

\* Link creates a directory symbolic link pointing to the contents of the
\* specified shadow copy ID.
Link0(st, link, id, e) == Link0ID(st, link, parseID(id), e)

\* deleteByID deletes a shadow copy by ID: the k-th WMI call of its session.
deleteByIDCall(e, k, lit, d, ev) ==
    IF e.fail = k
    THEN [st |-> d.pre, err |-> "wmi: call failed", out |-> <<>>,
          ev |-> ev \o <<Ev("WMI.Delete", lit, <<>>)>>]
    ELSE [st |-> d.st, err |-> d.err, out |-> <<>>, ev |-> ev \o <<Ev("WMI.Delete", lit, <<>>)>>]

deleteByIDLit(st, e, k, lit, ev) ==
    deleteByIDCall(e, k, lit, [pre |-> st] @@ OsDelete(st, lit), ev)

deleteByID(st, g, e, k, ev) == deleteByIDLit(st, e, k, GoQuote(GuidString(g)), ev)

\* idOfDeviceObject returns the ID property of the specified shadow copy
\* DeviceObject: the ID is parsed by parseID.
idOfDeviceObjectEnd(r) ==
    IF r.err = "nil" /\ parseID(r.out).err # "nil"
    THEN [r EXCEPT !.err = parseID(r.out).err, !.out = Nil]
    ELSE IF r.err = "nil" THEN [r EXCEPT !.out = parseID(r.out).g]
    ELSE r

idOfDeviceObjectQuery(st, q, e) == idOfDeviceObjectEnd(queryProp(q, e, OsExecQuery(st, q), "ID"))

idOfDeviceObject(st, dev, e) ==
    idOfDeviceObjectQuery(st, [field |-> "DeviceObject", lit |-> GoQuote(dev)], e)

\* deleteByDeviceObject after idOfDeviceObject returned r.
deleteByDeviceObjectID(st, r, e) ==
    IF r.err # "nil" THEN [st |-> st, err |-> r.err, out |-> <<>>, ev |-> r.ev]
    ELSE deleteByID(st, r.out, e, 2, r.ev)

\* deleteByDeviceObject deletes a shadow copy by DeviceObject path.
deleteByDeviceObject(st, dev, e) == deleteByDeviceObjectID(st, idOfDeviceObject(st, dev, e), e)

\* The events of a call of Delete(idOrLink) begin with the call itself.
DeleteCalled(idOrLink, r) == [r EXCEPT !.ev = <<Ev("Delete", idOrLink, <<>>)>> \o @]

\* Delete after wmiExec returned w and RemoveDirectory rd.
DeleteEnd(ev, w, rd) == Result(rd.st, rd.err, <<>>, <<>>, <<>>, ev \o w.ev \o rd.ev)

\* Delete of a symlink after wmiExec returned w.
DeleteUnlink(idOrLink, ev, w) ==
    IF w.err # "nil" THEN Result(w.st, w.err, <<>>, <<>>, <<>>, ev \o w.ev)
    ELSE DeleteEnd(ev, w, RemoveDirectory(w.st, idOrLink))

\* Delete of a symlink whose target is dev, its trailing backslash trimmed.
DeleteDev(st, idOrLink, dev, e, ev) ==
    IF Len(dev) = MAX_PATH \/ ~HasPrefix(dev, scDevPrefix)
    THEN Result(st, "not a valid shadow copy symlink", <<>>, <<>>, <<>>, ev)
    ELSE DeleteUnlink(idOrLink, ev, wmiExec(st, e, deleteByDeviceObject(st, dev, e)))

\* Delete of a name that is no ID: rl is what Readlink returned.
DeleteLink(st, idOrLink, rl, e, ev) ==
    IF rl.err # "nil" THEN Result(st, "not a valid symlink", <<>>, <<>>, <<>>, ev)
    ELSE DeleteDev(st, idOrLink, TrimSuffix(linkPrefix \o rl.s, <<"\\">>), e, ev)

DeleteDone(w) == Result(w.st, w.err, <<>>, <<>>, <<>>, w.ev)

DeleteID(st, idOrLink, p, e) ==
    IF p.err = "nil"
    THEN DeleteCalled(idOrLink, DeleteDone(wmiExec(st, e, deleteByID(st, p.g, e, 1, <<>>))))
    ELSE DeleteCalled(idOrLink,
            DeleteLink(st, idOrLink, Readlink(st, idOrLink, MAX_PATH - Len(linkPrefix)), e,
                       <<Ev("Readlink", idOrLink, <<>>)>>))

\* Delete deletes a shadow copy, which can be specified either by ID or a file
\* system path to a symlink where the shadow copy is mounted.
Delete(st, idOrLink, e) == DeleteID(st, idOrLink, parseID(idOrLink), e)

\* LinkNew after the deferred function called Delete, which returned rm.
LinkNewDeleted(b, rm) == Result(rm.st, b.err, <<>>, <<>>, <<>>, b.ev \o rm.ev)

\* The deferred function of LinkNew, run when Link returned l:
\* if err != nil { _ = Delete(id) }
LinkNewDefer(c, l, e) ==
    IF l.err # "nil"
    THEN LinkNewDeleted([l EXCEPT !.ev = c.ev \o @], Delete(l.st, c.id, e))
    ELSE [l EXCEPT !.ev = c.ev \o @]

\* LinkNew after Create returned c.
LinkNewCreated(link, c, e2, e3) ==
    IF c.err # "nil" THEN c ELSE LinkNewDefer(c, Link0(c.st, link, c.id, e2), e3)

\* LinkNew creates a new shadow copy and links it at the specified path.
\* The shadow copy is deleted if the operation fails.
LinkNew(st, link, vol, e1, e2, e3) == LinkNewCreated(link, Create0(st, vol, e1), e2, e3)

\* ------------------------------------------------------------------------
\* State and operations
\* ------------------------------------------------------------------------

VARIABLES
    rev,        \* the revision of the package the run uses: "old" or "new"
    created,    \* created[n]: the volume of the n-th shadow copy ever created
    alive,      \* the shadow copies that exist
    fs,         \* the file system entries, by OsKey
    once,       \* the sync.OnceValue behind isAdmin: [done, val, runs]
    tok,        \* what the security calls answer about the thread's token
    reliable,   \* whether COM and WMI serve every call of the run without error
    issued,     \* history: the IDs successful calls of Create returned
    removed,    \* history: the IDs of the shadow copies successful Removes deleted
    last,       \* the call of the API that just returned: arguments, results, events
    qry,        \* one call of queryOne, a closure call at a time
    wmi,        \* concurrent calls of wmiExec, a step at a time
    onc,        \* concurrent calls of isAdmin, a step of sync.OnceValue at a time
    pure        \* a call of a function of no state: its name, input and result

apiVars == <<rev, created, alive, fs, once, tok, reliable, issued, removed, last>>
stepVars == <<qry, wmi, onc, pure>>
vars == <<apiVars, stepVars>>

St == [created |-> created, alive |-> alive, fs |-> fs, once |-> once, tok |-> tok]

\* Arguments the calls are made with.
CreateVols == {<<"C",":">>, <<"D",":","/">>, <<"X",":">>}
ListVols ==
    CreateVols
    \cup {<<>>, ToUpper(SubSeq(VolGuid(1), 1, volLen - 1)), VolGuid(15)}
LinkNames == {PathSnap, PathSnapAlt, PathHex, PathLnk}
Names ==
    {ShadowID(n) : n \in 1..MaxCreate}
    \cup {DeviceOf(MaxCreate), ToUpper(DeviceOf(1)) \o <<"\\">>}
    \cup {PathSnap, PathSnapAlt, PathHex, PathLnk}

\* The sessions the environment of this run may give a call that makes up to
\* k WMI calls in a session.  (S_FALSE differs from S_OK inside initCOM only.)
Env(k) == IF reliable THEN {Healthy} ELSE {e \in Sessions : e.fail <= k /\ e.hr # "S_FALSE"}

\* Bounds of the step-wise specifications.
MaxObjs == 4
MaxGo == 2
MaxThreads == 3
MaxCalls == 2
MaxWmiCalls == 1

Goroutines == 1..MaxGo
Threads == 1..MaxThreads

QryIdle ==
    [pc |-> "idle", execOk |-> TRUE, res |-> <<>>, i |-> 1, c |-> queryOneVars,
     called |-> {}, ret |-> queryOneEnd(queryOneVars)]

WmiIdle ==
    [pc |-> [g \in Goroutines |-> "idle"],
     thr |-> [g \in Goroutines |-> 0],
     hr |-> [g \in Goroutines |-> "none"],
     err |-> [g \in Goroutines |-> "nil"],
     todo |-> [g \in Goroutines |-> 0],
     log |-> [g \in Goroutines |-> <<>>]]

OncIdle ==
    [done |-> FALSE, m |-> 0, valid |-> FALSE, result |-> FALSE, runs |-> 0,
     pc |-> [g \in Goroutines |-> "idle"],
     calls |-> [g \in Goroutines |-> 0],
     rets |-> <<>>]

PureIdle == [fn |-> "none", in |-> <<>>, out |-> <<>>]

StepIdle == qry = QryIdle /\ wmi = WmiIdle /\ onc = OncIdle /\ pure = PureIdle

NoCall ==
    [op |-> "none", arg |-> <<>>, arg2 |-> <<>>, sc |-> ZeroShadowCopy, err |-> "nil",
     id |-> <<>>, out |-> <<>>, ev |-> <<>>,
     pre |-> [created |-> <<>>, alive |-> {}, fs |-> <<>>]]

InitApi ==
    /\ created = <<>>
    /\ alive = {}
    /\ fs = InitFs
    /\ once = [done |-> FALSE, val |-> FALSE, runs |-> 0]
    /\ rev \in {"old", "new"}
    /\ tok \in (IF rev = "new" THEN Tokens ELSE {[alloc |-> TRUE, member |-> TRUE, err |-> FALSE]})
    /\ issued = {}
    /\ removed = {}
    /\ last = NoCall

Init == InitApi /\ reliable = FALSE /\ StepIdle

InitReliable == InitApi /\ reliable = TRUE /\ StepIdle

\* The IDs named by the Delete calls among the events ev.
Deleted(ev) == {WqlUnquote(ev[i].a) : i \in {j \in 1..Len(ev) : ev[j].k = "WMI.Delete"}}

\* The call op(arg, arg2) on sc returned r.
Commit(r, op, arg, arg2, sc) ==
    /\ created' = r.st.created
    /\ alive' = r.st.alive
    /\ fs' = r.st.fs
    /\ once' = r.st.once
    /\ UNCHANGED <<rev, tok, reliable, stepVars>>
    /\ issued' = IF op = "Create" /\ r.err = "nil" THEN issued \cup {r.id} ELSE issued
    /\ removed' = IF op \in {"Remove", "ShadowCopy.Remove"} /\ r.err = "nil"
                  THEN removed \cup (Deleted(r.ev) \cap issued) ELSE removed
    /\ last' = [op |-> op, arg |-> arg, arg2 |-> arg2, sc |-> sc, err |-> r.err,
                id |-> r.id, out |-> r.out, ev |-> r.ev,
                pre |-> [created |-> created, alive |-> alive, fs |-> fs]]

\* The caller is between two calls, of the revision r of the package.
Idle(r) == last.op = "none" /\ rev = r

\* The ShadowCopy values a caller may hold: of every shadow copy ever created.
Held == {unpack(Win32_ShadowCopy(n, created[n])) : n \in 1..Len(created)}

DoCreate ==
    /\ Idle("new")
    /\ Len(created) < MaxCreate
    /\ \E vol \in CreateVols, e \in Env(2) :
        Commit(Create(St, vol, e), "Create", vol, <<>>, ZeroShadowCopy)

DoCreateAt ==
    /\ Idle("new")
    /\ Len(created) < MaxCreate
    /\ \E link \in LinkNames, vol \in CreateVols, p \in Plans(3, Env(2)) :
        Commit(CreateAt(St, link, vol, p[1], p[2], p[3]), "CreateAt", link, vol, ZeroShadowCopy)

DoGet ==
    /\ Idle("new")
    /\ \E name \in Names \cup issued, e \in Env(1) :
        Commit(Get(St, name, e), "Get", name, <<>>, ZeroShadowCopy)

DoList ==
    /\ Idle("new")
    /\ \E vol \in ListVols, e \in Env(1) :
        Commit(List(St, vol, e), "List", vol, <<>>, ZeroShadowCopy)

DoRemove ==
    /\ Idle("new")
    /\ \E name \in Names \cup issued :
        \E p \in Plans(IF NewGUID(name) # Nil THEN 1 ELSE 2, Env(1)) :
            Commit(Remove(St, name, p[1], p[Len(p)]), "Remove", name, <<>>, ZeroShadowCopy)

DoLink ==
    /\ Idle("new")
    /\ \E sc \in Held, name \in LinkNames :
        Commit(scLink(St, sc, name), "ShadowCopy.Link", name, <<>>, sc)

DoScRemove ==
    /\ Idle("new")
    /\ \E sc \in Held, e \in Env(1) :
        Commit(scRemove(St, sc, e), "ShadowCopy.Remove", <<>>, <<>>, sc)

DoLinkNew ==
    /\ Idle("old")
    /\ Len(created) < MaxCreate
    /\ \E link \in LinkNames, vol \in CreateVols, p \in Plans(3, Env(2)) :
        Commit(LinkNew(St, link, vol, p[1], p[2], p[3]), "LinkNew", link, vol, ZeroShadowCopy)

DoDelete ==
    /\ Idle("old")
    /\ \E name \in Names, e \in Env(2) :
        Commit(Delete(St, name, e), "Delete", name, <<>>, ZeroShadowCopy)

\* The caller has taken the result of the call.
Return ==
    /\ last.op # "none"
    /\ last' = NoCall
    /\ UNCHANGED <<rev, created, alive, fs, once, tok, reliable, issued, removed, stepVars>>

Next ==
    \/ DoCreate
    \/ DoCreateAt
    \/ DoGet
    \/ DoList
    \/ DoRemove
    \/ DoLink
    \/ DoScRemove
    \/ DoLinkNew
    \/ DoDelete
    \/ Return

Spec == Init /\ [][Next]_vars

\* The runs in which COM and WMI serve every call.
SpecReliable == InitReliable /\ [][Next]_vars

\* ------------------------------------------------------------------------
\* queryOne, one closure call at a time
\* ------------------------------------------------------------------------

\* What fn returns on an object.
FnResults == {[err |-> "nil", out |-> <<"v">>], [err |-> "fn failed", out |-> <<>>]}

\* The results of a query: what fn returns on each of its objects.
ResultSets == UNION {[1..n -> FnResults] : n \in 0..MaxObjs}

\* The API is not in use.
ApiIdle ==
    /\ InitApi
    /\ rev = "new"
    /\ tok = [alloc |-> TRUE, member |-> TRUE, err |-> FALSE]
    /\ reliable = FALSE

InitQuery == ApiIdle /\ StepIdle

\* queryOne is called; the environment fixes what the query yields.
QueryCall ==
    /\ qry.pc = "idle"
    /\ \E ok \in BOOLEAN, res \in ResultSets :
        qry' = [QryIdle EXCEPT !.pc = "execQuery", !.execOk = ok, !.res = res,
                               !.c = IF ok THEN queryOneVars ELSE execQueryFailed]
    /\ UNCHANGED <<apiVars, wmi, onc, pure>>

\* The closure has run on the object i and left c2.
QueryCalled(c2) ==
    qry' = [qry EXCEPT !.c = c2, !.i = @ + 1,
                       !.called = IF c2.calls > qry.c.calls THEN @ \cup {qry.i} ELSE @]

\* ForEach calls the closure on the next object.
QueryEach ==
    /\ qry.pc = "execQuery"
    /\ qry.i <= Len(qry.res)
    /\ qry.c.err = "nil"
    /\ QueryCalled(queryOneFn(qry.c, qry.res[qry.i]))
    /\ UNCHANGED <<apiVars, wmi, onc, pure>>

\* execQuery returns; queryOne returns.
QueryEnd ==
    /\ qry.pc = "execQuery"
    /\ qry.i > Len(qry.res) \/ qry.c.err # "nil"
    /\ qry' = [qry EXCEPT !.pc = "done", !.ret = queryOneEnd(qry.c)]
    /\ UNCHANGED <<apiVars, wmi, onc, pure>>

QueryReturn ==
    /\ qry.pc = "done"
    /\ qry' = QryIdle
    /\ UNCHANGED <<apiVars, wmi, onc, pure>>

NextQuery ==
    \/ QueryCall
    \/ QueryEach
    \/ QueryEnd
    \/ QueryReturn

SpecQuery == InitQuery /\ [][NextQuery]_vars

\* ------------------------------------------------------------------------
\* wmiExec called from several goroutines, one step at a time
\* ------------------------------------------------------------------------

\* What CoInitializeEx may answer.
HResults == {"S_OK", "S_FALSE", "RPC_E_CHANGED_MODE"}

\* The threads wired to a goroutine other than g by LockOSThread.
WiredToOthers(g) ==
    {wmi.thr[h] : h \in {x \in Goroutines : x # g /\ wmi.thr[x] # 0}}

\* A scheduler that runs every goroutine on any thread.
RunsAnywhere(g) == Threads

\* The threads the scheduler may run the next step of g on: the thread g is
\* wired to, or else any thread wired to no other goroutine.
RunsOn(g) == IF wmi.thr[g] # 0 THEN {wmi.thr[g]} ELSE Threads \ WiredToOthers(g)

\* The goroutine g is at pc and its next step runs on t, logs the event k and
\* moves to pc2.
WmiStep(g, pc, k, t, pc2) ==
    /\ wmi.pc[g] = pc
    /\ wmi' = [wmi EXCEPT !.pc[g] = pc2, !.log[g] = Append(@, [k |-> k, t |-> t])]

\* As WmiStep, with the thread g is wired to changed to w.
WmiWire(g, pc, k, t, pc2, w) ==
    /\ wmi.pc[g] = pc
    /\ wmi' = [wmi EXCEPT !.pc[g] = pc2, !.log[g] = Append(@, [k |-> k, t |-> t]),
                          !.thr[g] = w]

\* As WmiStep, with the error of the call set to e.
WmiFail(g, pc, k, t, pc2, e) ==
    /\ wmi.pc[g] = pc
    /\ wmi' = [wmi EXCEPT !.pc[g] = pc2, !.log[g] = Append(@, [k |-> k, t |-> t]),
                          !.err[g] = e]

InitWmi == ApiIdle /\ StepIdle

\* The goroutine g calls wmiExec.
WmiExecCall(g) ==
    /\ wmi.pc[g] = "idle"
    /\ wmi' = [wmi EXCEPT !.pc[g] = "LockOSThread", !.log[g] = <<>>,
                          !.hr[g] = "none", !.err[g] = "nil", !.todo[g] = 0]
    /\ UNCHANGED <<apiVars, qry, onc, pure>>

\* initCOM: runtime.LockOSThread wires g to the thread it runs on.
LockOSThread(g) ==
    /\ \E t \in RunsOn(g) : WmiWire(g, "LockOSThread", "LockOSThread", t, "CoInitializeEx", t)
    /\ UNCHANGED <<apiVars, qry, onc, pure>>

\* initCOM after CoInitializeEx answered hr on the thread t.
CoInitialized(g, t, hr, e) ==
    /\ wmi.pc[g] = "CoInitializeEx"
    /\ wmi' = [wmi EXCEPT !.pc[g] = IF e # "nil" THEN "initCOM.defer" ELSE "connectServer",
                          !.log[g] = Append(@, [k |-> "CoInitializeEx", t |-> t]),
                          !.hr[g] = hr, !.err[g] = e]

\* initCOM: ole.CoInitializeEx.
CoInitializeEx(g) ==
    /\ \E t \in RunsOn(g), hr \in HResults :
        CoInitialized(g, t, hr, initCOMErr(CoInitializeExErr(hr)))
    /\ UNCHANGED <<apiVars, qry, onc, pure>>

\* initCOM's deferred function, on an error: runtime.UnlockOSThread.
InitCOMDefer(g) ==
    /\ \E t \in RunsOn(g) : WmiWire(g, "initCOM.defer", "UnlockOSThread", t, "return", 0)
    /\ UNCHANGED <<apiVars, qry, onc, pure>>

\* wmiExec: connectServer succeeds, or fails and wmiExec returns through its
\* deferred uninit.
ConnectServer(g) ==
    /\ \E t \in RunsOn(g) :
        \/ WmiStep(g, "connectServer", "ConnectServer", t, "fn")
        \/ WmiFail(g, "connectServer", "ConnectServer", t, "CoUninitialize", "ConnectServer failed")
    /\ UNCHANGED <<apiVars, qry, onc, pure>>

\* wmiExec calls fn, which is to make n calls of WMI.
FnCalled(g, t, n) ==
    /\ wmi.pc[g] = "fn"
    /\ wmi' = [wmi EXCEPT !.pc[g] = "fn.body", !.todo[g] = n,
                          !.log[g] = Append(@, [k |-> "fn", t |-> t])]

FnCall(g) ==
    /\ \E t \in RunsOn(g), n \in 0..MaxWmiCalls : FnCalled(g, t, n)
    /\ UNCHANGED <<apiVars, qry, onc, pure>>

\* A call of WMI inside fn has run on t, with the error e.
FnWmiCalled(g, t, e) ==
    /\ wmi.pc[g] = "fn.body"
    /\ wmi.todo[g] > 0
    /\ wmi' = [wmi EXCEPT !.todo[g] = IF e = "nil" THEN @ - 1 ELSE 0, !.err[g] = e,
                          !.log[g] = Append(@, [k |-> "WMI", t |-> t])]

\* fn makes a call of WMI, which succeeds or fails.
FnWmi(g) ==
    /\ \E t \in RunsOn(g), e \in {"nil", "WMI call failed"} : FnWmiCalled(g, t, e)
    /\ UNCHANGED <<apiVars, qry, onc, pure>>

\* fn returns: wmiExec's deferred s.Release runs.
FnReturn(g) ==
    /\ wmi.todo[g] = 0
    /\ \E t \in RunsOn(g) : WmiStep(g, "fn.body", "Release", t, "CoUninitialize")
    /\ UNCHANGED <<apiVars, qry, onc, pure>>

\* uninit: ole.CoUninitialize.
CoUninitialize(g) ==
    /\ \E t \in RunsOn(g) : WmiStep(g, "CoUninitialize", "CoUninitialize", t, "UnlockOSThread")
    /\ UNCHANGED <<apiVars, qry, onc, pure>>

\* uninit: runtime.UnlockOSThread.
UnlockOSThread(g) ==
    /\ \E t \in RunsOn(g) : WmiWire(g, "UnlockOSThread", "UnlockOSThread", t, "return", 0)
    /\ UNCHANGED <<apiVars, qry, onc, pure>>

\* wmiExec has returned to its caller.
WmiExecReturn(g) ==
    /\ wmi.pc[g] = "return"
    /\ wmi' = [wmi EXCEPT !.pc[g] = "idle"]
    /\ UNCHANGED <<apiVars, qry, onc, pure>>

NextWmi ==
    \E g \in Goroutines :
        \/ WmiExecCall(g)
        \/ LockOSThread(g)
        \/ CoInitializeEx(g)
        \/ InitCOMDefer(g)
        \/ ConnectServer(g)
        \/ FnCall(g)
        \/ FnWmi(g)
        \/ FnReturn(g)
        \/ CoUninitialize(g)
        \/ UnlockOSThread(g)
        \/ WmiExecReturn(g)

SpecWmi == InitWmi /\ [][NextWmi]_vars

\* ------------------------------------------------------------------------
\* isAdmin called from several goroutines: sync.OnceValue, one step at a time
\* ------------------------------------------------------------------------

InitOnce == ApiIdle /\ StepIdle

\* The goroutine g is at pc and moves to pc2.
OnceAt(g, pc, pc2) ==
    /\ onc.pc[g] = pc
    /\ onc' = [onc EXCEPT !.pc[g] = pc2]

\* The goroutine g calls isAdmin.
IsAdminCall(g) ==
    /\ onc.pc[g] = "idle"
    /\ onc.calls[g] < MaxCalls
    /\ onc' = [onc EXCEPT !.pc[g] = "Do", !.calls[g] = @ + 1]
    /\ UNCHANGED <<apiVars, qry, wmi, pure>>

\* Once.Do: the fast path, when done is set.
OnceDo(g) ==
    /\ OnceAt(g, "Do", IF onc.done THEN "result" ELSE "Lock")
    /\ UNCHANGED <<apiVars, qry, wmi, pure>>

\* doSlow: o.m.Lock.
OnceLock(g) ==
    /\ onc.pc[g] = "Lock"
    /\ onc.m = 0
    /\ onc' = [onc EXCEPT !.pc[g] = "doSlow", !.m = g]
    /\ UNCHANGED <<apiVars, qry, wmi, pure>>

\* A doSlow that does not look at done again.
doSlowAlways(done) == TRUE

\* doSlow, holding the lock: whether to run the function.
doSlowRuns(done) == ~done

OnceSlow(g) ==
    /\ OnceAt(g, "doSlow", IF doSlowRuns(onc.done) THEN "test" ELSE "Unlock")
    /\ UNCHANGED <<apiVars, qry, wmi, pure>>

\* The function given to OnceValue has run and returned v.
OnceTested(g, v) ==
    /\ onc.pc[g] = "test"
    /\ onc' = [onc EXCEPT !.pc[g] = "Store", !.result = v, !.valid = TRUE, !.runs = @ + 1]

\* The membership test runs, on the token as it is then.
OnceTest(g) ==
    /\ \E t \in Tokens : OnceTested(g, adminTest(t))
    /\ UNCHANGED <<apiVars, qry, wmi, pure>>

\* doSlow's deferred o.done.Store(1).
OnceStore(g) ==
    /\ onc.pc[g] = "Store"
    /\ onc' = [onc EXCEPT !.pc[g] = "Unlock", !.done = TRUE]
    /\ UNCHANGED <<apiVars, qry, wmi, pure>>

\* doSlow's deferred o.m.Unlock.
OnceUnlock(g) ==
    /\ onc.pc[g] = "Unlock"
    /\ onc' = [onc EXCEPT !.pc[g] = "result", !.m = 0]
    /\ UNCHANGED <<apiVars, qry, wmi, pure>>

\* isAdmin returns the stored result to g.
IsAdminReturn(g) ==
    /\ onc.pc[g] = "result"
    /\ onc' = [onc EXCEPT !.pc[g] = "idle",
                          !.rets = Append(@, [g |-> g, v |-> onc.result])]
    /\ UNCHANGED <<apiVars, qry, wmi, pure>>

NextOnce ==
    \E g \in Goroutines :
        \/ IsAdminCall(g)
        \/ OnceDo(g)
        \/ OnceLock(g)
        \/ OnceSlow(g)
        \/ OnceTest(g)
        \/ OnceStore(g)
        \/ OnceUnlock(g)
        \/ IsAdminReturn(g)

SpecOnce == InitOnce /\ [][NextOnce]_vars

\* ------------------------------------------------------------------------
\* The functions of no state, applied to drawn inputs
\* ------------------------------------------------------------------------

InitPure == ApiIdle /\ StepIdle

\* The function fn is called on in and returns out.
PureCall(fn, in, out) ==
    /\ pure.fn = "none"
    /\ pure' = [fn |-> fn, in |-> in, out |-> out]
    /\ UNCHANGED <<apiVars, qry, wmi, onc>>

PureReturn ==
    /\ pure.fn # "none"
    /\ pure' = PureIdle
    /\ UNCHANGED <<apiVars, qry, wmi, onc>>

\* n in k decimal digits.
RECURSIVE Digits(_, _)
Digits(n, k) == IF k = 0 THEN <<>> ELSE Digits(n \div 10, k - 1) \o <<HexSeq[(n % 10) + 1]>>

\* The fields of CIM datetimes: dates and times of the calendar and others,
\* offsets within and beyond twelve hours.
CimDates == {<<2023, 12, 13>>, <<2024, 2, 29>>, <<2023, 2, 29>>, <<2024, 1, 1>>, <<2023, 12, 31>>, <<2023, 13, 1>>}
CimTimes == {<<1, 22, 50>>, <<0, 0, 0>>, <<23, 59, 59>>, <<24, 0, 0>>, <<12, 60, 0>>}
CimMicros == {108124, 0, 999999}
CimOffsets == {0, 60, 300, 720, 721, 780, 840}
CimFields ==
    [date : CimDates, time : CimTimes, us : CimMicros, sep : {".", ":"},
     sgn : {"+", "-"}, off : CimOffsets]

\* yyyymmddHHMMSS.mmmmmmsUUU
CimString(f) ==
    Digits(f.date[1], 4) \o Digits(f.date[2], 2) \o Digits(f.date[3], 2)
    \o Digits(f.time[1], 2) \o Digits(f.time[2], 2) \o Digits(f.time[3], 2)
    \o <<f.sep>> \o Digits(f.us, 6) \o <<f.sgn>> \o Digits(f.off, 3)

\* Strings that are no CIM datetime.
CimOthers ==
    {<<>>, SubSeq(CimString(CHOOSE f \in CimFields : TRUE), 1, 21),
     <<"2","0","2","3","1","2","1","3","0","1","2","2","5","0",".","1","0","8","1","2","4","-","3","*","*">>,
     <<"2","0","2","3","1","2","1","3","0","1","2","2","5","0",".","1","0","8","1","2","4","-","3"," ","0">>,
     <<"2","0","2","3","1","2","1","3","*","*","*","*","*","*",".","*","*","*","*","*","*","-","3","0","0">>,
     <<"2","0","2","3","1","2","1","3","0","1","2","2","5","0",".","1","0","8","1","2","4"," ","3","0","0">>}

DoParseDateTime ==
    \/ \E f \in CimFields : PureCall("parseDateTime", f, parseDateTime(CimString(f)))
    \/ \E s \in CimOthers : PureCall("parseDateTime.raw", s, parseDateTime(s))

\* Paths SplitVolume is called with.
SplitNames ==
    {<<>>, <<".">>, <<"C",":">>, <<"C",":","f","o","o">>, <<"\\","W","i","n">>,
     <<"C",":","\\">>, <<"C",":","/">>, <<"c",":","\\","w","i","n","\\","s","y","s">>,
     <<"C",":","\\","W","i","n","\\","S","y","s">>,
     <<"C",":","/","W","i","n","/",".",".","/","W","i","n","/","S","y","s","/">>,
     <<"D",":","\\","m","n","t">>, <<"D",":","\\","m","n","t","\\",".","\\","a","\\","b">>,
     <<"C",":","\\",".",".">>,
     <<"\\","\\","h","\\","s">>, <<"\\","\\","h","\\","s","\\">>,
     <<"\\","\\","h","/","s","/","d","i","r">>,
     VolGuid(1), SubSeq(VolGuid(1), 1, volLen - 1), VolGuid(1) \o <<"a","\\","b">>}

\* Names volumeName is called with: drives, volume GUID names in several
\* spellings, and names that only look like them.
VolNames ==
    {<<>>, <<"C",":">>, <<"C",":","\\">>, <<"c",":","/">>, <<"D",":">>, <<"X",":">>,
     <<"\\">>, volPrefix, volTemplate, Tail(volTemplate) \o <<"\\">>,
     VolGuid(1), VolGuid(2), SubSeq(VolGuid(1), 1, volLen - 1),
     <<"\\","\\","?","\\","v","o","l","u","m","e","{">> \o SubSeq(VolGuid(1), 12, volLen),
     ToUpper(VolGuid(2)), ToUpper(volTemplate),
     [i \in 1..(volLen - 1) |-> IF VolGuid(2)[i] = "\\" THEN "/" ELSE UpperChar(VolGuid(2)[i])]}

\* volumeName of the revision r.
volumeNameRev(r, name) == IF r = "new" THEN Returns(volumeName(name)) ELSE volumeName0(name)

\* volumeName, and volumeName applied to the name it returned.
volumeNameTwice(r, first) ==
    [first |-> first,
     second |-> IF first.panic \/ first.err # "nil" THEN first ELSE volumeNameRev(r, first.name)]

DoVolumeName ==
    \E name \in VolNames, r \in {"old", "new"} :
        PureCall("volumeName", [name |-> name, rev |-> r],
                 volumeNameTwice(r, volumeNameRev(r, name)))

\* Lists of mount points a volume has, in the order of the volume manager.
MountLists ==
    {<<>>, <<MountPoint(1)>>, <<MountPoint(2)>>,
     <<<<"D",":","\\","m","n","t","\\">>, MountPoint(1)>>,
     <<MountPoint(1), <<"D",":","\\","m","n","t","\\">>>>,
     <<MountPoint(2), <<"C",":","\\","M","n","t","\\","a","\\">>, <<"D",":","\\","m","n","t","\\">>>>}

\* States of the volume manager for one volume: its mount points, or the
\* error of reading them with the length the buffer would need.
MountStates ==
    [err : {"nil"}, paths : MountLists, n : {0}]
    \cup [err : {"ERROR_MORE_DATA"}, paths : {<<>>}, n : {2 * MAX_PATH + 80}]
    \cup [err : {"ERROR_ACCESS_DENIED"}, paths : {<<>>}, n : {0}]

\* Volume names volumePaths is called with: the one volumeName gives for C:,
\* that of D:, and that of no volume.
PathVols == {volumeName(<<"C", ":">>).name, VolGuid(2), volTemplate}

DoVolumePaths ==
    \E vol \in PathVols, m \in MountStates, r \in {"old", "new"} :
        PureCall("volumePaths", [vol |-> vol, m |-> m, rev |-> r],
                 IF r = "new" THEN volumePaths(vol, m) ELSE volumePaths0(vol, m))

DoVolumePath ==
    \E vol \in PathVols, m \in MountStates, r \in {"old", "new"} :
        PureCall("VolumePath", [vol |-> vol, m |-> m, rev |-> r],
                 IF r = "new" THEN VolumePath(vol, m) ELSE VolumePath0(vol, m))

DoSplitVolume ==
    \E name \in SplitNames, d \in -1..MaxMountDepth :
        PureCall("SplitVolume", [name |-> name, d |-> d], SplitVolume(name, d))

NextPure ==
    \/ DoParseDateTime
    \/ DoSplitVolume
    \/ DoVolumeName
    \/ DoVolumePaths
    \/ DoVolumePath
    \/ PureReturn

SpecPure == InitPure /\ [][NextPure]_vars

\* ------------------------------------------------------------------------
\* Properties
\* ------------------------------------------------------------------------

\* The call that just returned was made by a member of the Administrators
\* group, as isAdmin's test sees it.
Admin == adminTest(tok)

\* The indices of the events of kind k among ev.
EventsOf(ev, k) == {i \in 1..Len(ev) : ev[i].k = k}

\* The shadow copy created by the call that just returned, if it created one.
CreatedOne == Len(created) = Len(last.pre.created) + 1

\* C2: CreateAt, and its earlier form LinkNew, removes the shadow copy it
\* created whenever it returns an error after Create succeeded: Remove (Delete
\* in LinkNew) is then called with the created ID before the call returns;
\* when the call returns nil, and when Create itself fails, no removal is
\* attempted.
C2_CreateAtCleansUp ==
    last.op \in {"CreateAt", "LinkNew"} =>
        IF CreatedOne /\ last.err # "nil"
        THEN \E i \in 1..Len(last.ev) :
                last.ev[i] = Ev(IF last.op = "CreateAt" THEN "Remove" ELSE "Delete",
                                ShadowID(Len(created)), <<>>)
        ELSE EventsOf(last.ev, "Remove") \cup EventsOf(last.ev, "Delete") = {}

\* CreateAt created a shadow copy, failed to symlink it and removed it again.
C2_Witness ==
    /\ last.op = "CreateAt"
    /\ CreatedOne
    /\ last.err = "CreateSymbolicLink failed"
    /\ Len(created) \notin alive

\* The operations that test the privilege.
AdminOps == {"Create", "CreateAt", "Get", "List", "Remove", "ShadowCopy.Remove"}

C5_CreatedIDIdentifies ==
    (last.op = "Get" /\ last.arg \in issued) =>
        IF last.arg \in removed
        THEN last.err = "not found"
        ELSE last.err = "nil" /\ Len(last.out) = 1 /\ last.out[1].ID = last.arg

\* Get of a created and then removed ID answered 'not found'.
C5_Witness ==
    last.op = "Get" /\ last.arg \in issued /\ last.arg \in removed /\ last.err = "not found"

\* The call g of Get succeeded and returned the ShadowCopy sc.
Returned(g, sc) == g.err = "nil" /\ g.out = <<sc>>

\* C6: for every shadow copy sc that List("") returned, and with the set of
\* shadow copies unchanged since, Get(sc.ID) and Get(sc.DeviceObject) both
\* succeed and return a ShadowCopy equal to sc in its four fields.
C6_ListThenGet ==
    (last.op = "List" /\ last.arg = <<>> /\ last.err = "nil") =>
        \A i \in 1..Len(last.out) :
            /\ Returned(Get(St, last.out[i].ID, Healthy), last.out[i])
            /\ Returned(Get(St, last.out[i].DeviceObject, Healthy), last.out[i])

\* List("") returned two shadow copies.
C6_Witness == last.op = "List" /\ last.arg = <<>> /\ last.err = "nil" /\ Len(last.out) = 2

\* The ShadowCopy sc is of a shadow copy that exists.
Existing(sc) == \E n \in alive : sc.ID = ShadowID(n)

\* The call g of Get read a symlink, queried by the DeviceObject dev and
\* returned sc.
ResolvedLink(g, sc) ==
    /\ Returned(g, sc)
    /\ Len(g.ev) >= 1 /\ g.ev[1].k = "Readlink"
    /\ \E i \in EventsOf(g.ev, "WMI.ExecQuery") : g.ev[i].a = GoQuote(sc.DeviceObject)

SymlinkTo(n, name) ==
    FsAt(last.pre.fs, OsKey(name)) = SymlinkEntry(DeviceOf(n) \o <<"\\">>)

\* The name is the ID, or the DeviceObject, of the shadow copy n.
NamesID(name, n) == NewGUID(name) # Nil /\ GuidString(NewGUID(name)) = ShadowID(n)
NamesDevice(name, n) ==
    NewGUID(name) = Nil /\ EqualFold(TrimSuffix(Clean(name), <<"\\">>), DeviceOf(n))

\* Among ev, the shadow copy n is deleted and the directory entry removed
\* after it.
DeletedThenUnlinked(ev, n) ==
    \E i \in EventsOf(ev, "WMI.Delete"), j \in EventsOf(ev, "RemoveDirectory") :
        i < j /\ ev[i].a = GoQuote(ShadowID(n))

\* What C8 asks of a Remove of a symlink to the shadow copy n.
RemovedWithLink(n) ==
    /\ alive = last.pre.alive \ {n}
    /\ FsAt(fs, OsKey(last.arg)).kind = "none"
    /\ DeletedThenUnlinked(last.ev, n)

\* What C8 asks of a Remove by the ID or the DeviceObject of n.
RemovedAlone(n) ==
    /\ alive = last.pre.alive \ {n}
    /\ fs = last.pre.fs
    /\ EventsOf(last.ev, "RemoveDirectory") = {}

ShadowsOf(k, all) == {n \in alive : all \/ created[n] = k}

\* The list out holds the shadow copies of S, each exactly once.
ListsExactly(out, S) ==
    /\ Len(out) = Cardinality(S)
    /\ \A n \in S : Cardinality({i \in 1..Len(out) : out[i].ID = ShadowID(n)}) = 1

\* The volume the volume manager knows under the name vol; 0 if none.
VolumeOf(vol) == OsVolumeOf(WithSlash(FromSlash(vol)))

Logged(g, k) == {i \in 1..Len(wmi.log[g]) : wmi.log[g][i].k = k}

\* In the log of g, there is exactly one event of kind k2, it comes after
\* exactly one event of kind k1.
OnceAfter(g, k1, k2) ==
    /\ Cardinality(Logged(g, k1)) = 1
    /\ Cardinality(Logged(g, k2)) = 1
    /\ \A i \in Logged(g, k1), j \in Logged(g, k2) : i < j

\* C1: wmiExec guarantees teardown on every return path: for each call, a
\* CoInitializeEx that reported S_OK or S_FALSE is followed by exactly one
\* CoUninitialize and the LockOSThread by exactly one UnlockOSThread, whether
\* the connection to WMI fails, fn returns an error, or fn succeeds; when
\* CoInitializeEx fails with any other code, wmiExec returns that error, fn
\* is never called, CoUninitialize is not called and the thread is unlocked
\* exactly once.
C1_Teardown ==
    \A g \in Goroutines :
        wmi.pc[g] = "return" =>
            /\ OnceAfter(g, "LockOSThread", "UnlockOSThread")
            /\ IF wmi.hr[g] \in {"S_OK", "S_FALSE"}
               THEN OnceAfter(g, "CoInitializeEx", "CoUninitialize")
               ELSE /\ wmi.err[g] = wmi.hr[g]
                    /\ Logged(g, "fn") = {}
                    /\ Logged(g, "CoUninitialize") = {}

\* A call in which CoInitializeEx reported S_FALSE and the connection failed
\* has returned, and another in which CoInitializeEx failed.
C1_Witness ==
    \E g, h \in Goroutines :
        /\ wmi.pc[g] = "return" /\ wmi.hr[g] = "S_FALSE"
        /\ wmi.err[g] = "ConnectServer failed"
        /\ Logged(g, "CoUninitialize") # {}
        /\ wmi.pc[h] = "return" /\ wmi.hr[h] = "RPC_E_CHANGED_MODE"

\* C4: the membership test behind isAdmin is one-shot and cached: across any
\* number of calls of isAdmin, from any number of goroutines in any
\* interleaving, the test runs at most once and every call returns the same
\* boolean as the first completed call.
C4_OneShot ==
    /\ onc.runs <= 1
    /\ \A i \in 1..Len(onc.rets) : onc.rets[i].v = onc.rets[1].v

\* Two goroutines were in Do before the test had run: one has run it and was
\* returned true, the other holds the lock now and finds done set.
C4_Witness ==
    /\ onc.runs = 1
    /\ \E g, h \in Goroutines :
        /\ g # h
        /\ onc.rets = <<[g |-> g, v |-> TRUE]>>
        /\ onc.pc[h] = "doSlow" /\ onc.done

\* queryOne has returned from a query that ExecQuery ran.
QueryDone == qry.pc = "done" /\ qry.execOk

\* What C10 says of every query: a nil error if and only if the query yields
\* exactly one object and the callback succeeds on it; 'not found' for no
\* object; the callback invoked at most once, and on the first object only.
QueryOneCommon ==
    /\ (qry.ret.err = "nil") <=> (Len(qry.res) = 1 /\ qry.res[1].err = "nil")
    /\ Len(qry.res) = 0 => qry.ret.err = "not found"
    /\ qry.called \subseteq {1}
    /\ qry.ret.calls <= 1

\* C10 as stated: a query with two or more objects returns a 'multiple
\* matches' error.
C10_AnyQuery ==
    QueryDone => (Len(qry.res) >= 2 => qry.ret.err = "multiple matches")

\* C10: queryOne returns a nil error if and only if the query yields exactly
\* one object and the callback succeeds on it; a query with zero objects
\* returns 'not found'; a query with two or more objects returns 'multiple
\* matches' if the callback succeeded on the first object and the callback's
\* error if it failed; in every case the callback is invoked at most once,
\* and only on the first object.
C10_QueryOne ==
    QueryDone =>
        /\ QueryOneCommon
        /\ (Len(qry.res) >= 2 /\ qry.res[1].err = "nil") => qry.ret.err = "multiple matches"
        /\ (Len(qry.res) >= 1 /\ qry.res[1].err # "nil") => qry.ret.err = qry.res[1].err

\* A query of three objects returned 'multiple matches' after one call of
\* the callback.
C10_Witness ==
    /\ QueryDone
    /\ Len(qry.res) = 3
    /\ qry.ret.err = "multiple matches"
    /\ qry.called = {1}

\* The days from 1970-01-01 to the first day of the year y, and to the first
\* day of the month m of y, counted year by year and month by month.
RECURSIVE DaysToYear(_)
DaysToYear(y) == IF y <= 1970 THEN 0 ELSE DaysToYear(y - 1) + (IF IsLeap(y - 1) THEN 366 ELSE 365)
RECURSIVE DaysToMonth(_, _)
DaysToMonth(y, m) == IF m <= 1 THEN DaysToYear(y) ELSE DaysToMonth(y, m - 1) + DaysIn(y, m - 1)

\* The fields f are a date and a time of the calendar, written with a point.
CivilFields(f) ==
    /\ f.date[2] \in 1..12 /\ f.date[3] \in 1..DaysIn(f.date[1], f.date[2])
    /\ f.time[1] \in 0..23 /\ f.time[2] \in 0..59 /\ f.time[3] \in 0..59
    /\ f.sep = "."

\* The seconds from 1970-01-01 00:00:00 UTC to the instant at which the clock
\* of the zone of f shows the date and time of f: the fields taken as UTC,
\* minus the offset.
SecondsOf(f) ==
    (DaysToMonth(f.date[1], f.date[2]) + f.date[3] - 1) * 86400
    + f.time[1] * 3600 + f.time[2] * 60 + f.time[3]
    - (IF f.sgn = "-" THEN -1 ELSE 1) * f.off * 60

\* parseDateTime returned the instant of the fields f.
ParsedAs(f, r) ==
    /\ r.err = "nil"
    /\ r.t[1] * 86400 + r.t[2] = SecondsOf(f)
    /\ r.t[2] \in 0..86399
    /\ r.t[3] = f.us

\* C11 as stated, for every offset of three digits: parseDateTime converts a
\* well-formed CIM datetime string to the instant whose civil date and time,
\* read in the zone UTC+-UUU minutes, are the string's fields.
C11_AnyOffset ==
    (pure.fn = "parseDateTime" /\ CivilFields(pure.in)) => ParsedAs(pure.in, pure.out)

\* C11: parseDateTime converts a well-formed CIM datetime string
\* yyyymmddHHMMSS.mmmmmm+-UUU whose offset UUU is at most 720 minutes to the
\* instant whose civil date and time, read in the zone UTC+-UUU minutes, are
\* the string's fields with microsecond precision: instant = (civil fields
\* taken as UTC) minus UUU minutes.  With a greater offset it returns the
\* error 'invalid UTC offset'.
C11_ParseDateTime ==
    (pure.fn = "parseDateTime" /\ CivilFields(pure.in)) =>
        IF pure.in.off <= 720
        THEN ParsedAs(pure.in, pure.out)
        ELSE pure.out.err = "invalid UTC offset"

\* "20231213012250.108124-300" was parsed as 2023-12-13 06:22:50.108124 UTC.
C11_Witness ==
    /\ pure.fn = "parseDateTime"
    /\ CimString(pure.in) = <<"2","0","2","3","1","2","1","3","0","1","2","2","5","0",".","1","0","8","1","2","4","-","3","0","0">>
    /\ pure.out = [err |-> "nil", t |-> <<19704, 6 * 3600 + 22 * 60 + 50, 108124>>]

\* The cleaned path name is absolute: it begins with a drive letter, a colon
\* and a backslash, or with two backslashes.
AbsoluteName(name) ==
    \/ Len(name) >= 3 /\ IsLetter(name[1]) /\ name[2] = ":" /\ name[3] = "\\"
    \/ Len(name) >= 2 /\ name[1] = "\\" /\ name[2] = "\\"

\* The cleaned path name is a volume name and nothing more, as \\host\share.
BareVolumeName(name) == Len(name) = volumeNameLen(name)

\* SplitVolume returned r for the cleaned path name, whose mount point is vol:
\* vol and the path of name relative to it, "." for the mount point itself.
SplitAt(name, vol, r) ==
    /\ r.err = "nil"
    /\ r.vol = vol
    /\ IF EqualFold(name, vol) \/ EqualFold(name \o <<"\\">>, vol)
       THEN r.rel = <<".">>
       ELSE vol \o r.rel = name

\* SplitVolume refused the path without asking the volume manager.
SplitRefused(r) == r.err # "nil" /\ ~r.os /\ r.vol = <<>> /\ r.rel = <<>>

\* The volume manager has a mount point for the cleaned name of the call.
SplitCalled(name) ==
    pure.fn = "SplitVolume" /\ Clean(pure.in.name) = name /\ pure.in.d >= 0

\* C12 as stated, for every absolute path: SplitVolume returns an error
\* without consulting the OS for a path that is not absolute after cleaning,
\* and for an absolute path the mount point and the relative path.
C12_AnyAbsolute ==
    pure.fn = "SplitVolume" =>
        \A name \in {Clean(pure.in.name)} :
            /\ ~AbsoluteName(name) => SplitRefused(pure.out)
            /\ (AbsoluteName(name) /\ pure.in.d >= 0) =>
                   SplitAt(name, GetVolumePathName(name, pure.in.d).vol, pure.out)

\* C12: SplitVolume returns an error without consulting the OS for any path
\* that is not absolute after cleaning (including "." and the bare drive
\* "C:"); for an absolute path that has a root after its volume name it
\* returns the volume mount point vol and the path rel of the cleaned name
\* relative to vol, with rel = "." when the name is the mount point itself;
\* for an absolute path that is a bare volume name, as \\host\share, it asks
\* the OS and returns an error.
C12_SplitVolume ==
    pure.fn = "SplitVolume" =>
        \A name \in {Clean(pure.in.name)} :
            /\ ~AbsoluteName(name) => SplitRefused(pure.out)
            /\ (AbsoluteName(name) /\ pure.in.d >= 0 /\ ~BareVolumeName(name)) =>
                   SplitAt(name, GetVolumePathName(name, pure.in.d).vol, pure.out)
            /\ (AbsoluteName(name) /\ BareVolumeName(name)) =>
                   pure.out.err # "nil" /\ pure.out.os

\* A path written with slashes and dots was split at the root of its drive.
C12_Witness ==
    /\ SplitCalled(<<"C",":","\\","W","i","n","\\","S","y","s">>)
    /\ pure.in.name # Clean(pure.in.name)
    /\ pure.out = [vol |-> <<"C",":","\\">>, rel |-> <<"W","i","n","\\","S","y","s">>,
                   err |-> "nil", os |-> TRUE]

\* The name as volumeName normalizes it: backslashes, and one at the end.
Normalized(name) == WithSlash(FromSlash(name))

\* n has the length of a volume GUID name and begins with \\?\Volume{, in
\* any case or, if exact, as written.
GuidFormat(n, exact) ==
    /\ Len(n) = 49
    /\ \A i \in 1..11 :
           IF exact THEN n[i] = volPrefix[i]
           ELSE UpperChar(n[i]) = UpperChar(volPrefix[i])

\* The call returned name without asking the volume manager.
Unmodified(r, name) == ~r.panic /\ r.err = "nil" /\ r.name = name /\ r.ev = <<>>

\* volumeName applied to its own successful result returns the same string.
Idempotent(o) ==
    (~o.first.panic /\ o.first.err = "nil") => Unmodified(o.second, o.first.name)

\* C13 as stated, for both revisions of volumeName: a name in the GUID
\* format, in any case, is returned normalized without calling the OS.
C13_AnyRevision ==
    pure.fn = "volumeName" =>
        /\ GuidFormat(Normalized(pure.in.name), FALSE) =>
               Unmodified(pure.out.first, Normalized(pure.in.name))
        /\ Idempotent(pure.out)

\* C13: volumeName returns a name that is already in the \\?\Volume{GUID}\
\* format unmodified except for the addition of a trailing backslash, without
\* calling the OS: any input that, after converting forward slashes and
\* appending a missing trailing backslash, has the exact GUID-name length and
\* starts with \\?\Volume{ (in any case in the current revision, exactly as
\* written in the earlier one) is returned as that normalized string, so
\* volumeName applied to its own successful result returns the same string;
\* the earlier revision passes a name with a differently cased prefix to the
\* OS.
C13_VolumeNameFixpoint ==
    pure.fn = "volumeName" =>
        /\ GuidFormat(Normalized(pure.in.name), pure.in.rev = "old") =>
               Unmodified(pure.out.first, Normalized(pure.in.name))
        /\ (pure.in.rev = "old" /\ pure.in.name # <<>>
              /\ ~GuidFormat(Normalized(pure.in.name), TRUE)) =>
               pure.out.first.ev # <<>>
        /\ Idempotent(pure.out)

\* A volume GUID name written in upper case with forward slashes and no
\* trailing separator came back normalized, and again unchanged.
C13_Witness ==
    /\ pure.fn = "volumeName"
    /\ pure.in.rev = "new"
    /\ pure.in.name # Normalized(pure.in.name)
    /\ pure.in.name # VolGuid(2)
    /\ EqualFold(Normalized(pure.in.name), VolGuid(2))
    /\ Unmodified(pure.out.first, Normalized(pure.in.name))
    /\ pure.out.second = pure.out.first

\* The call returned an error and no volume name.
Failed(r) == ~r.panic /\ r.err # "nil" /\ r.name = <<>>

Readable(in) == in.vol \in {VolGuid(k) : k \in Volumes} /\ in.m.err = "nil"

\* C15: volumePaths returns all mount points of the volume: for any
\* well-formed OS result (NUL-terminated non-empty strings followed by one
\* extra NUL, n counting all of them) it returns exactly those strings, one
\* entry each, in the OS order, with no empty entry; a volume with no mount
\* point yields an empty list and no error; volumePaths(volumeName("C:")) is
\* ["C:\"] when C:\ is the only mount point of that volume; an OS error gives
\* an error and no list.
C15_VolumePaths ==
    pure.fn = "volumePaths" =>
        IF Readable(pure.in)
        THEN /\ pure.out.err = "nil"
             /\ pure.out.all = pure.in.m.paths
             /\ \A i \in 1..Len(pure.out.all) : pure.out.all[i] # <<>>
        ELSE pure.out.err # "nil" /\ pure.out.all = <<>>

\* Three mount points came back as the volume manager listed them, which is
\* not their sorted order.
C15_Witness ==
    /\ pure.fn = "volumePaths"
    /\ pure.in.rev = "new"
    /\ Len(pure.in.m.paths) = 3
    /\ pure.out = [err |-> "nil",
                   all |-> <<<<"D",":","\\">>, <<"C",":","\\","M","n","t","\\","a","\\">>,
                             <<"D",":","\\","m","n","t","\\">>>>]

\* C16: ShadowCopy.VolumePath returns only the first mount point when the
\* shadow copy's original volume is mounted at multiple locations (the first
\* the OS lists in the current revision, the first in sorted order in the
\* earlier one); when the volume has no mount point it returns the empty
\* string with a nil error, and when the mount points cannot be read it
\* returns the empty string with that error.
C16_VolumePath ==
    pure.fn = "VolumePath" =>
        IF ~Readable(pure.in)
        THEN pure.out = [err |-> "failed to get volume paths", path |-> <<>>]
        ELSE IF pure.in.m.paths = <<>>
        THEN pure.out = [err |-> "nil", path |-> <<>>]
        ELSE /\ pure.out.err = "nil"
             /\ IF pure.in.rev = "new"
                THEN pure.out.path = pure.in.m.paths[1]
                ELSE /\ pure.out.path \in Range(pure.in.m.paths)
                     /\ \A t \in Range(pure.in.m.paths) : ~StringLess(t, pure.out.path)

\* Of two mount points the first listed was returned, although the second
\* sorts before it.
C16_Witness ==
    /\ pure.fn = "VolumePath"
    /\ pure.in.rev = "new"
    /\ pure.in.m.paths = <<<<"D",":","\\","m","n","t","\\">>, <<"C",":","\\">>>>
    /\ pure.out = [err |-> "nil", path |-> <<"D",":","\\","m","n","t","\\">>]

\* The name n begins with the device prefix of shadow copies, in any case.
DevName(n) ==
    /\ Len(n) >= Len(scDevPrefix)
    /\ ToUpper(SubSeq(n, 1, Len(scDevPrefix))) = ToUpper(scDevPrefix)

\* The file system entry en is a symlink to a shadow copy device.
ShadowLink(en) == en.kind = "symlink" /\ DevName(linkPrefix \o LinkTarget(en))

\* From its event number from on, the call entered wmiExec, and each query it
\* ran selected by the property field equal to the literal lit.
QueriedBy(g, from, field, lit) ==
    /\ Len(g.ev) >= from /\ g.ev[from].k = "LockOSThread"
    /\ \A i \in EventsOf(g.ev, "WMI.ExecQuery") :
           g.ev[i] = Ev("WMI.ExecQuery", GoQuote(lit), <<field>>)

\* get(name) gave g, cname being the cleaned name and en the file system
\* entry there: by ID, by DeviceObject, or by the target of the symlink.
Classified(name, cname, en, g) ==
    IF NewGUID(name) # Nil
    THEN /\ EventsOf(g.ev, "Readlink") = {} /\ g.symlink = <<>>
         /\ QueriedBy(g, 1, "ID", GuidString(NewGUID(name)))
    ELSE IF DevName(cname)
    THEN /\ EventsOf(g.ev, "Readlink") = {} /\ g.symlink = <<>>
         /\ QueriedBy(g, 1, "DeviceObject", TrimSuffix(cname, <<"\\">>))
    ELSE /\ EventsOf(g.ev, "Readlink") = {1}
         /\ g.ev[1] = Ev("Readlink", cname, <<>>)
         /\ IF ~ShadowLink(en)
            THEN /\ g.err = (IF en.kind = "symlink" THEN "not a shadow copy symlink"
                             ELSE "not a symlink")
                 /\ g.out = <<>> /\ g.symlink = <<>>
                 /\ Len(g.ev) = 1
            ELSE /\ g.symlink = cname
                 /\ QueriedBy(g, 2, "DeviceObject",
                              TrimSuffix(linkPrefix \o LinkTarget(en), <<"\\">>))

\* C17: get classifies its argument in a fixed order and rejects
\* non-shadow-copy paths before any WMI access: a name that parses as a GUID
\* is queried by ID; otherwise a cleaned name that starts case-insensitively
\* with \\?\GLOBALROOT\Device\HarddiskVolumeShadowCopy is queried by
\* DeviceObject and no symlink path is reported; otherwise the name is read
\* as a symlink, and if it is not a symlink or its target lacks that device
\* prefix, get returns an error without initializing COM or running a query.
C17_GetClassifies ==
    (last.op = "Get" /\ Admin) =>
        /\ \A e \in Env(1) :
               Classified(last.arg, Clean(last.arg), FsAt(fs, OsKey(last.arg)),
                          get(St, last.arg, e))
        /\ EventsOf(get(St, last.arg, Healthy).ev, "WMI.ExecQuery") = {}
               <=> get(St, last.arg, Healthy).err \in {"not a symlink", "not a shadow copy symlink"}

\* Get of a symlink to a directory that is no shadow copy was rejected after
\* reading the link, before any COM call.
C17_Witness ==
    /\ last.op = "Get" /\ Admin
    /\ last.arg = PathLnk
    /\ last.err = "not a shadow copy symlink"
    /\ last.ev = <<Ev("Readlink", PathLnk, <<>>)>>

\* The threads the events of kind k of the wmiExec call of g ran on.
ThreadsOf(g, k) == {wmi.log[g][i].t : i \in Logged(g, k)}

\* In the wmiExec call of g, COM is initialized and not yet uninitialized.
ComOpen(g) ==
    /\ wmi.pc[g] \in {"connectServer", "fn", "fn.body", "CoUninitialize"}
    /\ wmi.hr[g] \in {"S_OK", "S_FALSE"}

\* C18: under any interleaving of concurrent wmiExec calls made from
\* different goroutines, each call stays pinned to one OS thread from before
\* CoInitializeEx until after CoUninitialize, so the COM initialization,
\* every WMI call made inside fn and the COM uninitialization of one call all
\* run on the same OS thread, and no call uninitializes COM on a thread that
\* another call initialized.
C18_Pinned ==
    \A g \in Goroutines :
        /\ wmi.pc[g] # "idle" =>
               \A i, j \in 1..Len(wmi.log[g]) : wmi.log[g][i].t = wmi.log[g][j].t
        /\ ComOpen(g) => wmi.thr[g] \in ThreadsOf(g, "CoInitializeEx")
        /\ wmi.pc[g] = "UnlockOSThread" =>
               /\ ThreadsOf(g, "CoUninitialize") = ThreadsOf(g, "CoInitializeEx")
               /\ \A h \in Goroutines \ {g} :
                      ComOpen(h) =>
                          ThreadsOf(h, "CoInitializeEx") \cap ThreadsOf(g, "CoUninitialize") = {}

\* One call has just uninitialized COM after a WMI call while another, on a
\* different thread, is inside fn after a WMI call of its own.
C18_Witness ==
    \E g, h \in Goroutines :
        /\ g # h
        /\ wmi.pc[g] = "UnlockOSThread" /\ Logged(g, "WMI") # {}
        /\ ComOpen(h) /\ Logged(h, "WMI") # {}
        /\ wmi.thr[g] # 0 /\ wmi.thr[h] # 0 /\ wmi.thr[g] # wmi.thr[h]
====
